---- MODULE Spec2Model ----
(***************************************************************************)
(* Echo Query language server (aal20/eqls).                                *)
(*                                                                         *)
(* The repository holds several copies of EchoQueryServer.  Two of them    *)
(* are modelled, told apart by the variable build:                         *)
(*   "part_003"  the debounced server: validate() schedules doValidate     *)
(*               with setTimeout(..., 500); doValidate splits on ' '.      *)
(*   "part_001"  the immediate server: validate() calls doValidate at      *)
(*               once; doValidate splits on /\s+/.                         *)
(* (src/unnamed/part_002 has the timer code of part_003, word for word,    *)
(* and a doValidate that publishes an empty list.)                         *)
(*                                                                         *)
(* A JavaScript string is a sequence of one-character strings.             *)
(***************************************************************************)
EXTENDS Integers, Sequences, FiniteSets, TLC

VARIABLES
    build,                      \* which copy of EchoQueryServer runs
    \* ---- the document session (Spec) ----
    documents,                  \* TextDocuments: uri -> text, or NoDocument
    pendingValidationRequests,  \* Map<string, Timeout>: uri -> timer id, or NoTimer
    timers,                     \* the event loop's live setTimeout callbacks
    nextTimer,                  \* the next timer id setTimeout returns
    now,                        \* the clock, in ms
    snapshots,                  \* history: the open/change notifications received
    passes,                     \* history: the runs of doValidate
    published,                  \* the publishDiagnostics notifications sent
    \* ---- one call of doValidate on an arbitrary text (SpecValidate) ----
    text,                       \* textDocument.getText()
    diagnostics,                \* the diagnostics array doValidate published
    pc,
    \* ---- the requests (SpecRequests, SpecAnalyze) ----
    request,                    \* the request served last
    response,                   \* what its handler returned
    \* ---- the editor client (SpecClient) ----
    clientBuild,                \* which copy of the editor client runs
    initialized,                \* let initialized
    nextRequestId,              \* let nextRequestId
    ws,                         \* let ws: the WebSocket in use, or null
    reconnectAttempts,          \* let reconnectAttempts
    sockets,                    \* every WebSocket constructed, in order
    reconnectTimers,            \* pending setTimeout(connectToServer) callbacks
    content,                    \* editor.getValue()
    edits,                      \* the number of edits made in the editor
    markers                     \* the editor model's markers

vars == <<build, documents, pendingValidationRequests, timers, nextTimer, now,
          snapshots, passes, published, text, diagnostics, pc, request, response,
          clientBuild, initialized, nextRequestId, ws, reconnectAttempts, sockets,
          reconnectTimers, content, edits, markers>>

sessionVars == <<documents, pendingValidationRequests, timers, nextTimer, now,
                 snapshots, passes, published>>

validateVars == <<text, diagnostics, pc>>

requestVars == <<request, response>>

clientVars == <<clientBuild, initialized, nextRequestId, ws, reconnectAttempts, sockets,
                reconnectTimers, content, edits, markers>>

Builds == {"part_001", "part_003"}

(***************************************************************************)
(* JavaScript string functions                                             *)
(***************************************************************************)

\* the characters \s matches and trim() removes
IsWhitespace(c) == c \in {" ", "\t", "\n", "\r"}

LowerLetters == <<"a","b","c","d","e","f","g","h","i","j","k","l","m",
                  "n","o","p","q","r","s","t","u","v","w","x","y","z">>
UpperLetters == <<"A","B","C","D","E","F","G","H","I","J","K","L","M",
                  "N","O","P","Q","R","S","T","U","V","W","X","Y","Z">>

UpperChar(c) ==
    IF \E i \in 1..Len(LowerLetters) : LowerLetters[i] = c
    THEN UpperLetters[CHOOSE i \in 1..Len(LowerLetters) : LowerLetters[i] = c]
    ELSE c

\* String.prototype.toUpperCase
toUpperCase(s) == [i \in 1..Len(s) |-> UpperChar(s[i])]

\* String.prototype.trim
trim(s) ==
    LET keep == {i \in 1..Len(s) : ~IsWhitespace(s[i])}
    IN  IF keep = {} THEN <<>>
        ELSE LET lo == CHOOSE i \in keep : \A j \in keep : i <= j
                 hi == CHOOSE i \in keep : \A j \in keep : j <= i
             IN  SubSeq(s, lo, hi)

\* String.prototype.startsWith
startsWith(s, p) == Len(p) <= Len(s) /\ SubSeq(s, 1, Len(p)) = p

\* String.prototype.includes
includes(s, sub) ==
    \E i \in 1..(Len(s) - Len(sub) + 1) : SubSeq(s, i, i + Len(sub) - 1) = sub

\* s.split(c) for a one-character separator c: every c separates, so two
\* adjacent separators give an empty part
RECURSIVE split(_, _)
split(s, c) ==
    IF \A i \in 1..Len(s) : s[i] # c THEN <<s>>
    ELSE LET i == CHOOSE k \in 1..Len(s) :
                      s[k] = c /\ \A j \in 1..(k - 1) : s[j] # c
         IN  <<SubSeq(s, 1, i - 1)>> \o split(SubSeq(s, i + 1, Len(s)), c)

\* s.split(/\s+/): a maximal run of whitespace separates
RECURSIVE splitWhitespace(_)
splitWhitespace(s) ==
    IF \A i \in 1..Len(s) : ~IsWhitespace(s[i]) THEN <<s>>
    ELSE LET i == CHOOSE k \in 1..Len(s) :
                      IsWhitespace(s[k]) /\ \A j \in 1..(k - 1) : ~IsWhitespace(s[j])
             rest == {k \in (i + 1)..Len(s) : ~IsWhitespace(s[k])}
             j == IF rest = {} THEN Len(s) + 1
                  ELSE CHOOSE k \in rest : \A m \in rest : k <= m
         IN  <<SubSeq(s, 1, i - 1)>> \o splitWhitespace(SubSeq(s, j, Len(s)))

\* Array.prototype.filter(part => part.length > 0)
filterNonEmpty(parts) == SelectSeq(parts, LAMBDA p : Len(p) > 0)

\* quoteCount with the g flag forgotten: match() then returns the first match only
quoteCount_firstMatch(s) == IF \E i \in 1..Len(s) : s[i] = "\"" THEN 1 ELSE 0

\* (s.match(/"/g) || []).length
quoteCount(s) == Cardinality({i \in 1..Len(s) : s[i] = "\""})

(***************************************************************************)
(* doValidate                                                              *)
(***************************************************************************)

validStartKeywords ==
    { <<"I","N","D","E","X">>, <<"F","I","L","T","E","R">>, <<"M","A","P">>,
      <<"A","S">>, <<"S","Q","L">>, <<"J","O","I","N">> }

MsgKeyword == "Line must start with one of: INDEX, FILTER, MAP, AS, SQL, JOIN"
MsgIndex   == "INDEX statement must be followed by an index name"
MsgFilter  == "FILTER must include a comparison operator (>, <, =, !=)"
MsgMap     == "MAP statement should typically include field paths (using dots) or AS keyword"
MsgQuotes  == "Unmatched quotes in line"

Diagnostic(sev, lineIndex, endChar, msg) ==
    [ severity |-> sev,
      range    |-> [ start |-> [line |-> lineIndex, character |-> 0],
                     end   |-> [line |-> lineIndex, character |-> endChar] ],
      message  |-> msg,
      source   |-> "Echo Query" ]

\* skipLine with the comment test forgotten
skipLine_blankOnly(trimmedLine) == trimmedLine = <<>>

\* trimmedLine === '' || trimmedLine.startsWith('//')
skipLine(trimmedLine) ==
    trimmedLine = <<>> \/ startsWith(trimmedLine, <<"/", "/">>)

\* trimmedLine.split(/\s+/)[0].toUpperCase()
firstWord001(trimmedLine) == toUpperCase(splitWhitespace(trimmedLine)[1])

\* trimmedLine.split(' ')[0].toUpperCase()
firstWord003(trimmedLine) == toUpperCase(split(trimmedLine, " ")[1])

\* rule 1, the same in both servers
checkKeyword(firstWord, lineIndex) ==
    IF firstWord \notin validStartKeywords
    THEN <<Diagnostic(1, lineIndex, Len(firstWord), MsgKeyword)>>
    ELSE <<>>

\* tooFewParts001 with the bound off by one (parts.length <= 2)
tooFewParts001_offByOne(trimmedLine) ==
    LET parts == filterNonEmpty(splitWhitespace(trimmedLine))
    IN  Len(parts) <= 2

\* parts.length < 2 || !parts[1]?.trim()
tooFewParts001(trimmedLine) ==
    LET parts == filterNonEmpty(splitWhitespace(trimmedLine))
    IN  Len(parts) < 2 \/ trim(parts[2]) = <<>>

\* rule 2 in the immediate server
checkIndex001(firstWord, trimmedLine, lineIndex) ==
    IF firstWord = <<"I","N","D","E","X">> /\ tooFewParts001(trimmedLine)
    THEN <<Diagnostic(1, lineIndex,
                      IF Len(trimmedLine) # 0 THEN Len(trimmedLine) ELSE 5, MsgIndex)>>
    ELSE <<>>

\* rule 2 in the debounced server
checkIndex003(firstWord, line, trimmedLine, lineIndex) ==
    IF firstWord = <<"I","N","D","E","X">> /\ Len(split(trimmedLine, " ")) < 2
    THEN <<Diagnostic(1, lineIndex, Len(line), MsgIndex)>>
    ELSE <<>>

hasCondition(trimmedLine) ==
    \/ includes(trimmedLine, <<">">>)
    \/ includes(trimmedLine, <<"<">>)
    \/ includes(trimmedLine, <<"=">>)
    \/ includes(trimmedLine, <<"!", "=">>)

\* rule 3; width is trimmedLine.length (immediate) or line.length (debounced)
checkFilter(firstWord, trimmedLine, lineIndex, width) ==
    IF firstWord = <<"F","I","L","T","E","R">> /\ ~hasCondition(trimmedLine)
    THEN <<Diagnostic(1, lineIndex, width, MsgFilter)>>
    ELSE <<>>

\* !trimmedLine.includes('AS') && !trimmedLine.includes('.')
lacksMapShape(trimmedLine) ==
    ~includes(trimmedLine, <<"A","S">>) /\ ~includes(trimmedLine, <<".">>)

\* rule 4
checkMap(firstWord, trimmedLine, lineIndex, width) ==
    IF firstWord = <<"M","A","P">> /\ lacksMapShape(trimmedLine)
    THEN <<Diagnostic(2, lineIndex, width, MsgMap)>>
    ELSE <<>>

\* rule 5
checkQuotes(trimmedLine, lineIndex, width) ==
    IF quoteCount(trimmedLine) % 2 # 0
    THEN <<Diagnostic(1, lineIndex, width, MsgQuotes)>>
    ELSE <<>>

\* the callback of the immediate server with the quote rule run first
validateLine001_quotesFirst(line, lineIndex) ==
    LET trimmedLine == trim(line)
        firstWord   == firstWord001(trimmedLine)
        width       == Len(trimmedLine)
    IN  IF skipLine(trimmedLine) THEN <<>>
        ELSE checkQuotes(trimmedLine, lineIndex, width)
             \o checkKeyword(firstWord, lineIndex)
             \o checkIndex001(firstWord, trimmedLine, lineIndex)
             \o checkFilter(firstWord, trimmedLine, lineIndex, width)
             \o checkMap(firstWord, trimmedLine, lineIndex, width)

\* the forEach callback of doValidate in the immediate server
validateLine001(line, lineIndex) ==
    LET trimmedLine == trim(line)
        firstWord   == firstWord001(trimmedLine)
        width       == Len(trimmedLine)
    IN  IF skipLine(trimmedLine) THEN <<>>
        ELSE checkKeyword(firstWord, lineIndex)
             \o checkIndex001(firstWord, trimmedLine, lineIndex)
             \o checkFilter(firstWord, trimmedLine, lineIndex, width)
             \o checkMap(firstWord, trimmedLine, lineIndex, width)
             \o checkQuotes(trimmedLine, lineIndex, width)

\* the forEach callback of doValidate in the debounced server
validateLine003(line, lineIndex) ==
    LET trimmedLine == trim(line)
        firstWord   == firstWord003(trimmedLine)
        width       == Len(line)
    IN  IF skipLine(trimmedLine) THEN <<>>
        ELSE checkKeyword(firstWord, lineIndex)
             \o checkIndex003(firstWord, line, trimmedLine, lineIndex)
             \o checkFilter(firstWord, trimmedLine, lineIndex, width)
             \o checkMap(firstWord, trimmedLine, lineIndex, width)
             \o checkQuotes(trimmedLine, lineIndex, width)

validateLine(b, line, lineIndex) ==
    IF b = "part_001" THEN validateLine001(line, lineIndex)
                      ELSE validateLine003(line, lineIndex)

\* forEachLine reporting 1-based line numbers
RECURSIVE forEachLine_oneBased(_, _, _)
forEachLine_oneBased(b, lines, from) ==
    IF from > Len(lines) THEN <<>>
    ELSE validateLine(b, lines[from], from) \o forEachLine_oneBased(b, lines, from + 1)

\* lines.forEach((line, lineIndex) => ...): the diagnostics of lines[from..],
\* line indexes counted from 0
RECURSIVE forEachLine(_, _, _)
forEachLine(b, lines, from) ==
    IF from > Len(lines) THEN <<>>
    ELSE validateLine(b, lines[from], from - 1) \o forEachLine(b, lines, from + 1)

\* the diagnostics array doValidate publishes for a document text
doValidate(b, t) == forEachLine(b, split(t, "\n"), 1)

(***************************************************************************)
(* doValidate on arbitrary texts (SpecValidate)                            *)
(***************************************************************************)

\* the longest tail appended to a line's head
MaxSuffix == 2

SuffixAlphabet == {" ", "\t", "\"", ".", "=", "A", "S", "x"}

\* all the strings over SuffixAlphabet of length n
RECURSIVE StringsOfLen(_)
StringsOfLen(n) ==
    IF n = 0 THEN {<<>>}
    ELSE {<<c>> \o s : c \in SuffixAlphabet, s \in StringsOfLen(n - 1)}

Suffixes == UNION {StringsOfLen(n) : n \in 0..MaxSuffix}

\* how the lines start: the keywords in several letter cases, after leading
\* whitespace, other words, comments
Heads ==
    { <<>>,
      <<"I","N","D","E","X">>, <<"i","n","d","e","x">>, <<" ","I","N","D","E","X">>,
      <<"F","I","L","T","E","R">>, <<"F","i","l","t","e","r">>,
      <<"F","I","L","T","E","R"," ","a",">">>, <<"F","I","L","T","E","R"," ","a","<">>,
      <<"F","I","L","T","E","R"," ","a","!">>,
      <<"M","A","P">>, <<"m","a","p">>, <<"\t","M","A","P">>,
      <<"S","Q","L">>, <<"J","O","I","N">>, <<"N","O","T">>,
      <<"B","A","D","K","E","Y">>, <<"/","/">>, <<" ","/","/">>, <<"/">> }

Lines == {h \o s : h \in Heads, s \in Suffixes}

\* the lines put in front of the line under test
Context ==
    { <<>>, <<" ","\t">>, <<"/","/","M","A","P">>, <<"M","A","P"," ","x","\"">>,
      <<"i","n","d","e","x">> }

Texts == Lines \cup {c \o <<"\n">> \o l : c \in Context, l \in Lines}

SessionInit ==
    /\ documents = <<>>
    /\ pendingValidationRequests = <<>>
    /\ timers = {}
    /\ nextTimer = 1
    /\ now = 0
    /\ snapshots = <<>>
    /\ passes = <<>>
    /\ published = <<>>

\* no request served yet
NoRequest == [method |-> "none"]

RequestInit ==
    /\ request = NoRequest
    /\ response = <<>>

\* the copies of the editor client: part_000 sends didOpen and didChange once
\* initialized, the client at the head of part_001 sends didChange alone
ClientBuilds == {"part_000", "part_001"}

\* let ws: WebSocket | null = null
null == 0

\* new WebSocket('ws://localhost:30000'): the messages sent on it, the
\* messages of the server on their way to it, how many of the sent messages
\* the server has handled, and (history) whether onopen has run on it
WebSocket ==
    [ readyState |-> "CONNECTING", sent |-> <<>>, incoming |-> <<>>, handled |-> 0,
      wasOpen |-> FALSE ]

\* monaco.editor.create(..., { value: ... })
InitialValue ==
    <<"/","/"," ","T","y","p","e"," ","y","o","u","r"," ","E","c","h","o"," ",
      "Q","u","e","r","y"," ","h","e","r","e","\n",
      "I","N","D","E","X"," ","u","s","e","r","s","\n",
      "F","I","L","T","E","R"," ","a","g","e"," ",">"," ","2","5">>

\* the client once its script has run: the state is declared, the editor
\* created, and connectToServer() has constructed the first socket
ClientInit ==
    /\ clientBuild \in ClientBuilds
    /\ initialized = FALSE
    /\ nextRequestId = 1
    /\ reconnectAttempts = 0
    /\ sockets = <<WebSocket>>
    /\ ws = 1
    /\ reconnectTimers = 0
    /\ content = InitialValue
    /\ edits = 0
    /\ markers = <<>>

\* the server under study runs without the editor client attached
ClientIdle == ClientInit /\ clientBuild = "part_000"

InitValidate ==
    /\ build \in Builds
    /\ SessionInit
    /\ RequestInit
    /\ ClientIdle
    /\ text \in Texts
    /\ diagnostics = <<>>
    /\ pc = "ready"

\* doValidate(textDocument) of the immediate server
DoValidate001 ==
    /\ pc = "ready"
    /\ build = "part_001"
    /\ diagnostics' = doValidate("part_001", text)
    /\ pc' = "done"
    /\ UNCHANGED <<build, text, sessionVars, requestVars, clientVars>>

\* doValidate(textDocument) of the debounced server
DoValidate003 ==
    /\ pc = "ready"
    /\ build = "part_003"
    /\ diagnostics' = doValidate("part_003", text)
    /\ pc' = "done"
    /\ UNCHANGED <<build, text, sessionVars, requestVars, clientVars>>

NextValidate == DoValidate001 \/ DoValidate003

SpecValidate == InitValidate /\ [][NextValidate]_vars

(***************************************************************************)
(* The document session (Spec): open, change and close notifications, the  *)
(* debounce timers and the publications.                                   *)
(***************************************************************************)

URIs == {"u1", "u2"}

\* the texts the client sends: one without diagnostics (AS), one with two
\* Errors (x")
DocTexts == { <<"A","S">>, <<"x","\"">> }

\* setTimeout(..., 500)
DebounceMs == 500

\* the clock advances in steps of TickMs up to MaxClock
TickMs == 250
MaxClock == 1000

\* the number of open and change notifications in a run
MaxNotifications == 3

\* Map.set / Map.delete on a map kept as a function
MapSet(m, k, v) == [x \in (DOMAIN m) \cup {k} |-> IF x = k THEN v ELSE m[x]]
MapDelete(m, k) == [x \in (DOMAIN m) \ {k} |-> m[x]]

\* cleanPendingValidation with clearTimeout forgotten: the entry goes, the
\* callback stays scheduled
cleanPendingValidation_noClearTimeout(pending, live, uri) ==
    IF uri \in DOMAIN pending
    THEN [pending |-> MapDelete(pending, uri), timers |-> live]
    ELSE [pending |-> pending, timers |-> live]

\* cleanPendingValidation that, finding no entry for the URI, clears the
\* whole map and every timer
cleanPendingValidation_clearAllWhenAbsent(pending, live, uri) ==
    IF uri \in DOMAIN pending
    THEN [pending |-> MapDelete(pending, uri),
          timers  |-> {t \in live : t.id # pending[uri]}]
    ELSE [pending |-> <<>>, timers |-> {}]

\* cleanPendingValidation(textDocument): the map and the live timers after it
cleanPendingValidation(pending, live, uri) ==
    IF uri \in DOMAIN pending
    THEN [pending |-> MapDelete(pending, uri),
          timers  |-> {t \in live : t.id # pending[uri]}]
    ELSE [pending |-> pending, timers |-> live]

\* connection.sendNotification('textDocument/publishDiagnostics', ...);
\* snap is history: the snapshot the diagnostics were computed from, 0 for
\* the empty set cleanDiagnostics sends
Publication(uri, diags, snap) == [uri |-> uri, diagnostics |-> diags, snap |-> snap]

\* doValidate with the diagnostics array kept as a field of the server
\* instead of a local: every pass pushes onto what the passes before left
RunDoValidate_sharedArray(uri, t, snap) ==
    LET kept == IF published = <<>> THEN <<>>
                ELSE published[Len(published)].diagnostics
    IN  /\ passes' = Append(passes, [uri |-> uri, text |-> t, snap |-> snap, at |-> now])
        /\ published' = Append(published,
                                Publication(uri, kept \o doValidate(build, t), snap))

\* doValidate publishing a delta: only the diagnostics that the publication
\* before it for the URI did not carry
RunDoValidate_delta(uri, t, snap) ==
    LET before == SelectSeq(published, LAMBDA p : p.uri = uri)
        old    == IF before = <<>> THEN <<>> ELSE before[Len(before)].diagnostics
        isNew(d) == \A k \in 1..Len(old) : old[k] # d
    IN  /\ passes' = Append(passes, [uri |-> uri, text |-> t, snap |-> snap, at |-> now])
        /\ published' = Append(published,
                                Publication(uri, SelectSeq(doValidate(build, t), isNew), snap))

\* doValidate(textDocument) run by the session: one validation pass
RunDoValidate(uri, t, snap) ==
    /\ passes' = Append(passes, [uri |-> uri, text |-> t, snap |-> snap, at |-> now])
    /\ published' = Append(published, Publication(uri, doValidate(build, t), snap))

\* validate of the debounced server changed to flush at once when a timer
\* is already pending, leaving that timer scheduled
validate003_flushWhenPending(uri, t, snap) ==
    IF uri \in DOMAIN pendingValidationRequests
    THEN /\ RunDoValidate(uri, t, snap)
         /\ UNCHANGED <<pendingValidationRequests, timers, nextTimer>>
    ELSE /\ pendingValidationRequests' = MapSet(pendingValidationRequests, uri, nextTimer)
         /\ timers' = timers \cup {[id |-> nextTimer, uri |-> uri, text |-> t,
                                     snap |-> snap, due |-> now + DebounceMs]}
         /\ nextTimer' = nextTimer + 1
         /\ UNCHANGED <<passes, published>>

\* validate of the debounced server with one timer for the whole server:
\* scheduling cancels whatever is pending, for any URI
validate003_singleGlobalTimer(uri, t, snap) ==
    /\ pendingValidationRequests' = MapSet(<<>>, uri, nextTimer)
    /\ timers' = {[id |-> nextTimer, uri |-> uri, text |-> t,
                    snap |-> snap, due |-> now + DebounceMs]}
    /\ nextTimer' = nextTimer + 1
    /\ UNCHANGED <<passes, published>>

\* validate(textDocument) of the debounced server: cancel, then schedule
validate003(uri, t, snap) ==
    LET c == cleanPendingValidation(pendingValidationRequests, timers, uri)
    IN  /\ pendingValidationRequests' = MapSet(c.pending, uri, nextTimer)
        /\ timers' = c.timers \cup {[id |-> nextTimer, uri |-> uri, text |-> t,
                                      snap |-> snap, due |-> now + DebounceMs]}
        /\ nextTimer' = nextTimer + 1
        /\ UNCHANGED <<passes, published>>

\* validate(textDocument) of the immediate server: cancel, then doValidate
validate001(uri, t, snap) ==
    LET c == cleanPendingValidation(pendingValidationRequests, timers, uri)
    IN  /\ pendingValidationRequests' = c.pending
        /\ timers' = c.timers
        /\ RunDoValidate(uri, t, snap)
        /\ UNCHANGED nextTimer

Snapshot(uri, t) == [uri |-> uri, text |-> t, at |-> now]

\* textDocument/didOpen, debounced server.  TextDocuments stores the
\* document and fires onDidChangeContent, whose listener calls validate.
DidOpen003(uri, t) ==
    /\ build = "part_003"
    /\ Len(snapshots) < MaxNotifications
    /\ uri \notin DOMAIN documents
    /\ documents' = MapSet(documents, uri, t)
    /\ snapshots' = Append(snapshots, Snapshot(uri, t))
    /\ validate003(uri, t, Len(snapshots) + 1)
    /\ UNCHANGED <<build, now, validateVars, requestVars, clientVars>>

\* textDocument/didChange, debounced server.  TextDocuments updates a
\* document it holds and fires onDidChangeContent; a change for a URI it
\* does not hold is dropped.
DidChange003(uri, t) ==
    /\ build = "part_003"
    /\ Len(snapshots) < MaxNotifications
    /\ uri \in DOMAIN documents
    /\ documents' = MapSet(documents, uri, t)
    /\ snapshots' = Append(snapshots, Snapshot(uri, t))
    /\ validate003(uri, t, Len(snapshots) + 1)
    /\ UNCHANGED <<build, now, validateVars, requestVars, clientVars>>

\* connection.onDidOpenTextDocument of the immediate server
DidOpen001(uri, t) ==
    /\ build = "part_001"
    /\ Len(snapshots) < MaxNotifications
    /\ uri \notin DOMAIN documents
    /\ documents' = MapSet(documents, uri, t)
    /\ snapshots' = Append(snapshots, Snapshot(uri, t))
    /\ validate001(uri, t, Len(snapshots) + 1)
    /\ UNCHANGED <<build, now, validateVars, requestVars, clientVars>>

\* connection.onDidChangeTextDocument of the immediate server: both
\* branches (document held or not) store a new document and validate it
DidChange001(uri, t) ==
    /\ build = "part_001"
    /\ Len(snapshots) < MaxNotifications
    /\ documents' = MapSet(documents, uri, t)
    /\ snapshots' = Append(snapshots, Snapshot(uri, t))
    /\ validate001(uri, t, Len(snapshots) + 1)
    /\ UNCHANGED <<build, now, validateVars, requestVars, clientVars>>

\* the onDidClose listener with cleanPendingValidation left out
DidClose_publishOnly(uri) ==
    /\ uri \in DOMAIN documents
    /\ documents' = MapDelete(documents, uri)
    /\ published' = Append(published, Publication(uri, <<>>, 0))
    /\ UNCHANGED <<build, now, snapshots, passes, nextTimer, timers,
                   pendingValidationRequests, validateVars, requestVars, clientVars>>

\* textDocument/didClose, both servers.  TextDocuments drops the document it
\* holds and fires onDidClose, whose listener calls cleanPendingValidation
\* and cleanDiagnostics.
DidClose(uri) ==
    LET c == cleanPendingValidation(pendingValidationRequests, timers, uri)
    IN  /\ uri \in DOMAIN documents
        /\ documents' = MapDelete(documents, uri)
        /\ pendingValidationRequests' = c.pending
        /\ timers' = c.timers
        /\ published' = Append(published, Publication(uri, <<>>, 0))
        /\ UNCHANGED <<build, now, snapshots, passes, nextTimer, validateVars, requestVars, clientVars>>

\* the setTimeout callback without pendingValidationRequests.delete
TimerFire_keepEntry(t) ==
    /\ t \in timers
    /\ now >= t.due
    /\ \A o \in timers : o.id >= t.id
    /\ timers' = timers \ {t}
    /\ RunDoValidate(t.uri, t.text, t.snap)
    /\ UNCHANGED <<build, documents, now, snapshots, nextTimer, validateVars, requestVars,
                   pendingValidationRequests, clientVars>>

\* the setTimeout callback of validate: timers of one delay run in the order
\* they were set, none before it is due
TimerFire(t) ==
    /\ t \in timers
    /\ now >= t.due
    /\ \A o \in timers : o.id >= t.id
    /\ timers' = timers \ {t}
    /\ pendingValidationRequests' = MapDelete(pendingValidationRequests, t.uri)
    /\ RunDoValidate(t.uri, t.text, t.snap)
    /\ UNCHANGED <<build, documents, now, snapshots, nextTimer, validateVars, requestVars, clientVars>>

\* time passes
Tick ==
    /\ now + TickMs <= MaxClock
    /\ now' = now + TickMs
    /\ UNCHANGED <<build, documents, pendingValidationRequests, timers, nextTimer,
                   snapshots, passes, published, validateVars, requestVars, clientVars>>

Init ==
    /\ build \in Builds
    /\ SessionInit
    /\ RequestInit
    /\ ClientIdle
    /\ text = <<>>
    /\ diagnostics = <<>>
    /\ pc = "session"

Next ==
    \/ \E uri \in URIs, t \in DocTexts : DidOpen003(uri, t)
    \/ \E uri \in URIs, t \in DocTexts : DidChange003(uri, t)
    \/ \E uri \in URIs, t \in DocTexts : DidOpen001(uri, t)
    \/ \E uri \in URIs, t \in DocTexts : DidChange001(uri, t)
    \/ \E uri \in URIs : DidClose(uri)
    \/ \E t \in timers : TimerFire(t)
    \/ Tick

Spec == Init /\ [][Next]_vars

(***************************************************************************)
(* The request handlers: completion, hover, findDocumentSymbols, format.   *)
(* They are the same, word for word, in part_001, part_002 and part_003.   *)
(***************************************************************************)

\* undefined, and a value that is not undefined
Undefined == <<>>
Defined(v) == <<v>>

Digits == {"0", "1", "2", "3", "4", "5", "6", "7", "8", "9"}

\* the characters \w matches
IsWordChar(c) ==
    \/ \E i \in 1..Len(LowerLetters) : c = LowerLetters[i] \/ c = UpperLetters[i]
    \/ c \in Digits
    \/ c = "_"

\* \b at position p of s (p characters before it): a word character on
\* exactly one side
IsWordBoundary(s, p) ==
    (p > 0 /\ IsWordChar(s[p])) # (p < Len(s) /\ IsWordChar(s[p + 1]))

\* INDEX|FILTER|MAP|AS|SQL|JOIN|NOT, in the order of the alternation
keywordAlternatives ==
    << <<"I","N","D","E","X">>, <<"F","I","L","T","E","R">>, <<"M","A","P">>,
       <<"A","S">>, <<"S","Q","L">>, <<"J","O","I","N">>, <<"N","O","T">> >>

\* winlog\.event_id|winlog\.event_data\.ProcessName|host\.hostname|process\.executable
fieldAlternatives ==
    << <<"w","i","n","l","o","g",".","e","v","e","n","t","_","i","d">>,
       <<"w","i","n","l","o","g",".","e","v","e","n","t","_","d","a","t","a",".",
         "P","r","o","c","e","s","s","N","a","m","e">>,
       <<"h","o","s","t",".","h","o","s","t","n","a","m","e">>,
       <<"p","r","o","c","e","s","s",".","e","x","e","c","u","t","a","b","l","e">> >>

\* the alternatives of /\b(a1|a2|...)\b/ that match s at position p; with
\* the i flag the comparison ignores case
alternativesAt(s, p, alts, ignoreCase) ==
    SelectSeq(alts, LAMBDA a :
        /\ p + Len(a) <= Len(s)
        /\ IsWordBoundary(s, p)
        /\ IsWordBoundary(s, p + Len(a))
        /\ LET found == SubSeq(s, p + 1, p + Len(a))
           IN  IF ignoreCase THEN toUpperCase(found) = toUpperCase(a) ELSE found = a)

\* line.match(/\b(a1|a2|...)\b/g) with only the first match kept (the g
\* flag left out)
RECURSIVE matchAll_firstOnly(_, _, _, _)
matchAll_firstOnly(s, p, alts, ignoreCase) ==
    IF p >= Len(s) THEN <<>>
    ELSE LET hit == alternativesAt(s, p, alts, ignoreCase)
         IN  IF hit = <<>> THEN matchAll_firstOnly(s, p + 1, alts, ignoreCase)
             ELSE <<[index |-> p, match |-> SubSeq(s, p + 1, p + Len(hit[1]))]>>

\* the successive matches of /\b(a1|a2|...)\b/g in s from position p on:
\* leftmost first, the first alternative that matches, the scan going on
\* where the match ended
RECURSIVE matchAll(_, _, _, _)
matchAll(s, p, alts, ignoreCase) ==
    IF p >= Len(s) THEN <<>>
    ELSE LET hit == alternativesAt(s, p, alts, ignoreCase)
         IN  IF hit = <<>> THEN matchAll(s, p + 1, alts, ignoreCase)
             ELSE <<[index |-> p, match |-> SubSeq(s, p + 1, p + Len(hit[1]))]>>
                      \o matchAll(s, p + Len(hit[1]), alts, ignoreCase)

\* the successive matches of /\b\w+\b/g in s from position p on: \w+ is
\* greedy, so a match is a whole run of word characters
RECURSIVE wordPatternExec(_, _)
wordPatternExec(s, p) ==
    IF p >= Len(s) THEN <<>>
    ELSE IF ~IsWordChar(s[p + 1]) THEN wordPatternExec(s, p + 1)
    ELSE LET stop == {q \in (p + 1)..Len(s) : q = Len(s) \/ ~IsWordChar(s[q + 1])}
             end  == CHOOSE q \in stop : \A r \in stop : q <= r
         IN  <<[index |-> p, match |-> SubSeq(s, p + 1, end)]>> \o wordPatternExec(s, end)

\* String.prototype.indexOf, for a sub that occurs in s
indexOf(s, sub) ==
    LET at == {p \in 0..(Len(s) - Len(sub)) : SubSeq(s, p + 1, p + Len(sub)) = sub}
    IN  IF at = {} THEN -1 ELSE CHOOSE p \in at : \A q \in at : p <= q

\* lines.join('\n')
RECURSIVE join(_, _)
join(lines, sep) ==
    IF lines = <<>> THEN <<>>
    ELSE IF Len(lines) = 1 THEN lines[1]
    ELSE lines[1] \o sep \o join(Tail(lines), sep)

\* TextDocument.offsetAt (vscode-languageserver-textdocument): the offsets
\* of the line starts, and the offset of a position clamped to its line.  A
\* character past the end of the line gives the start of the next line in the
\* older releases of the library and the end of the line in the newer ones;
\* the repository does not pin the release, so both are outcomes.
lineOffsets(t) == <<0>> \o SelectSeq([i \in 1..Len(t) |-> IF t[i] = "\n" THEN i ELSE -1],
                                     LAMBDA o : o >= 0)

offsetAt(t, position) ==
    LET offs == lineOffsets(t) IN
    IF position.line >= Len(offs) THEN {Len(t)}
    ELSE LET lineOffset == offs[position.line + 1]
             nextLineOffset == IF position.line + 1 < Len(offs)
                               THEN offs[position.line + 2] ELSE Len(t)
             endOfLine == IF position.line + 1 < Len(offs)
                          THEN nextLineOffset - 1 ELSE nextLineOffset
         IN  IF lineOffset + position.character <= endOfLine
             THEN {lineOffset + position.character}
             ELSE {endOfLine, nextLineOffset}

\* CompletionItemKind.Keyword, CompletionItemKind.Field (vscode-languageserver-types)
CompletionItemKind == [Keyword |-> 14, Field |-> 5]

keywordItems ==
    << [label |-> "INDEX", kind |-> CompletionItemKind.Keyword,
        detail |-> "INDEX statement", documentation |-> "Specify the index to query from"],
       [label |-> "FILTER", kind |-> CompletionItemKind.Keyword,
        detail |-> "FILTER operation", documentation |-> "Filter and transform the results"],
       [label |-> "MAP", kind |-> CompletionItemKind.Keyword,
        detail |-> "MAP function", documentation |-> "Transform data using a mapping expression"],
       [label |-> "AS", kind |-> CompletionItemKind.Keyword,
        detail |-> "AS clause", documentation |-> "Assign an alias to the result set"],
       [label |-> "SQL", kind |-> CompletionItemKind.Keyword,
        detail |-> "SQL operation", documentation |-> "Perform SQL operations on the data"],
       [label |-> "JOIN", kind |-> CompletionItemKind.Keyword,
        detail |-> "JOIN function", documentation |-> "Join two result sets based on conditions"],
       [label |-> "NOT", kind |-> CompletionItemKind.Keyword,
        detail |-> "NOT operator", documentation |-> "Negate a condition"] >>

\* the field list of completion, and `Field path: ${field}`
fields ==
    << [label |-> "winlog.event_id", documentation |-> "Field path: winlog.event_id"],
       [label |-> "winlog.event_data.ProcessName",
        documentation |-> "Field path: winlog.event_data.ProcessName"],
       [label |-> "host.hostname", documentation |-> "Field path: host.hostname"],
       [label |-> "process.executable", documentation |-> "Field path: process.executable"] >>

fieldItems ==
    [i \in 1..Len(fields) |->
        [label |-> fields[i].label, kind |-> CompletionItemKind.Field,
         detail |-> "Field", documentation |-> fields[i].documentation]]

\* completion that offers the fields only where the document has a dot
completion_fieldsAfterDot(docs, params) ==
    IF params.textDocument.uri \notin DOMAIN docs
    THEN [isIncomplete |-> FALSE, items |-> <<>>]
    ELSE IF includes(docs[params.textDocument.uri], <<".">>)
    THEN [isIncomplete |-> FALSE, items |-> keywordItems \o fieldItems]
    ELSE [isIncomplete |-> FALSE, items |-> keywordItems]

\* completion(params)
completion(docs, params) ==
    IF params.textDocument.uri \notin DOMAIN docs
    THEN [isIncomplete |-> FALSE, items |-> <<>>]
    ELSE [isIncomplete |-> FALSE, items |-> keywordItems \o fieldItems]

\* getWordAtOffset with the end of the word left out (offset < end)
getWordAtOffset_endExclusive(t, offset) ==
    LET hits == SelectSeq(wordPatternExec(t, 0),
                          LAMBDA m : offset >= m.index /\ offset < m.index + Len(m.match))
    IN  IF hits = <<>> THEN Undefined ELSE Defined(hits[1].match)

\* getWordAtOffset with the start of the word left out (offset > start)
getWordAtOffset_startExclusive(t, offset) ==
    LET hits == SelectSeq(wordPatternExec(t, 0),
                          LAMBDA m : offset > m.index /\ offset <= m.index + Len(m.match))
    IN  IF hits = <<>> THEN Undefined ELSE Defined(hits[1].match)

\* getWordAtOffset(text, offset): the first match that holds or touches the offset
getWordAtOffset(t, offset) ==
    LET hits == SelectSeq(wordPatternExec(t, 0),
                          LAMBDA m : offset >= m.index /\ offset <= m.index + Len(m.match))
    IN  IF hits = <<>> THEN Undefined ELSE Defined(hits[1].match)

FallbackContents == <<"Echo Query Language">>

\* the switch of hover on word.toUpperCase(); a word of no case falls
\* through to the return after the switch
hoverContents(upper) ==
    CASE upper = <<"I","N","D","E","X">> ->
             <<"INDEX statement", "Specifies the index to query from">>
      [] upper = <<"F","I","L","T","E","R">> ->
             <<"FILTER operation", "Filters and transforms the result set">>
      [] upper = <<"M","A","P">> ->
             <<"MAP function", "Transforms data using a mapping expression">>
      [] upper = <<"A","S">> ->
             <<"AS clause", "Assigns an alias to the result set">>
      [] upper = <<"S","Q","L">> ->
             <<"SQL operation", "Performs SQL operations on the data">>
      [] upper = <<"J","O","I","N">> ->
             <<"JOIN function", "Joins two result sets based on conditions">>
      [] upper = <<"N","O","T">> ->
             <<"NOT operator", "Negates a condition">>
      [] OTHER -> FallbackContents

\* hover(params) for a document the server holds, from the offset on
hoverAt(t, offset) ==
    LET word == getWordAtOffset(t, offset)
    IN  IF word # Undefined
        THEN Defined([contents |-> hoverContents(toUpperCase(word[1]))])
        ELSE Defined([contents |-> FallbackContents])

\* SymbolInformation as findDocumentSymbols builds it
SymbolInformation(name, kind, uri, i, line) ==
    [name |-> name, kind |-> kind,
     location |-> [uri |-> uri,
                   range |-> [start |-> [line |-> i, character |-> indexOf(line, name)],
                              end   |-> [line |-> i,
                                         character |-> indexOf(line, name) + Len(name)]]]]

\* the kinds findDocumentSymbols gives, under the names of its comments:
\* kind: 14, // Keyword and kind: 7, // Variable
SymbolKind == [Keyword |-> 14, Variable |-> 7]

\* the symbols of line i: the keyword matches, then the field matches
lineSymbols(uri, line, i) ==
    LET keywordMatch == matchAll(line, 0, keywordAlternatives, TRUE)
        fieldMatch   == matchAll(line, 0, fieldAlternatives, FALSE)
    IN  [k \in 1..Len(keywordMatch) |->
            SymbolInformation(keywordMatch[k].match, SymbolKind.Keyword, uri, i, line)]
        \o
        [k \in 1..Len(fieldMatch) |->
            SymbolInformation(fieldMatch[k].match, SymbolKind.Variable, uri, i, line)]

RECURSIVE symbolsOfLines(_, _, _)
symbolsOfLines(uri, lines, from) ==
    IF from > Len(lines) THEN <<>>
    ELSE lineSymbols(uri, lines[from], from - 1) \o symbolsOfLines(uri, lines, from + 1)

\* findDocumentSymbols(params)
findDocumentSymbols(docs, params) ==
    IF params.textDocument.uri \notin DOMAIN docs THEN <<>>
    ELSE symbolsOfLines(params.textDocument.uri,
                        split(docs[params.textDocument.uri], "\n"), 1)

\* the keyword replace without the g flag: the first match only
upperCaseKeywords_firstOnly(line) ==
    LET ms == matchAll_firstOnly(line, 0, keywordAlternatives, TRUE)
        inMatch(i) == \E k \in 1..Len(ms) :
                          ms[k].index < i /\ i <= ms[k].index + Len(ms[k].match)
    IN  [i \in 1..Len(line) |-> IF inMatch(i) THEN UpperChar(line[i]) ELSE line[i]]

\* the keyword replace without the two \b: a keyword is upper-cased
\* wherever its letters stand, inside longer words too
upperCaseKeywords_insideWords(line) ==
    LET inMatch(i) == \E k \in 1..Len(keywordAlternatives), p \in 0..(i - 1) :
                          /\ i <= p + Len(keywordAlternatives[k])
                          /\ p + Len(keywordAlternatives[k]) <= Len(line)
                          /\ toUpperCase(SubSeq(line, p + 1, p + Len(keywordAlternatives[k])))
                                 = keywordAlternatives[k]
    IN  [i \in 1..Len(line) |-> IF inMatch(i) THEN UpperChar(line[i]) ELSE line[i]]

\* .replace(/\b(INDEX|...|NOT)\b/gi, match => match.toUpperCase())
upperCaseKeywords(line) ==
    LET ms == matchAll(line, 0, keywordAlternatives, TRUE)
        inMatch(i) == \E k \in 1..Len(ms) :
                          ms[k].index < i /\ i <= ms[k].index + Len(ms[k].match)
    IN  [i \in 1..Len(line) |-> IF inMatch(i) THEN UpperChar(line[i]) ELSE line[i]]

\* .replace(/([,(){}])/g, '$1 ')
RECURSIVE spaceAfterPunctuation(_)
spaceAfterPunctuation(s) ==
    IF s = <<>> THEN <<>>
    ELSE IF s[1] \in {",", "(", ")", "{", "}"}
    THEN <<s[1], " ">> \o spaceAfterPunctuation(Tail(s))
    ELSE <<s[1]>> \o spaceAfterPunctuation(Tail(s))

\* .replace(/\s+/g, ' ')
RECURSIVE collapseWhitespace(_)
collapseWhitespace(s) ==
    IF s = <<>> THEN <<>>
    ELSE IF IsWhitespace(s[1])
    THEN IF Len(s) > 1 /\ IsWhitespace(s[2])
         THEN collapseWhitespace(Tail(s))
         ELSE <<" ">> \o collapseWhitespace(Tail(s))
    ELSE <<s[1]>> \o collapseWhitespace(Tail(s))

\* the line formatter with the whitespace kept as it is
formatLine_keepWhitespace(line) ==
    trim(spaceAfterPunctuation(upperCaseKeywords(line)))

\* the callback of lines.map in format
formatLine(line) ==
    trim(collapseWhitespace(spaceAfterPunctuation(upperCaseKeywords(line))))

\* the new text format computes from the text of the range
formatText(t) ==
    LET lines == split(t, "\n")
    IN  join([i \in 1..Len(lines) |-> formatLine(lines[i])], <<"\n">>)

\* TextDocument.getText(range) from the two offsets on: String.substring,
\* which swaps its arguments when the first is the larger
substring(t, a, b) ==
    IF a <= b THEN SubSeq(t, a + 1, b) ELSE SubSeq(t, b + 1, a)

\* format(params) for a document the server holds, from the offsets on
formatAt(t, range, startOffset, endOffset) ==
    <<[range |-> range, newText |-> formatText(substring(t, startOffset, endOffset))]>>

\* hover that answers with the fallback for a document the server does not hold
hover_fallbackWithoutDocument(docs, params) ==
    IF params.textDocument.uri \notin DOMAIN docs
    THEN {[offsets |-> <<>>, result |-> Defined([contents |-> FallbackContents])]}
    ELSE {[offsets |-> <<o>>, result |-> hoverAt(docs[params.textDocument.uri], o)] :
              o \in offsetAt(docs[params.textDocument.uri], params.position)}

\* hover(params): what it returns, with the offset document.offsetAt gave
hover(docs, params) ==
    IF params.textDocument.uri \notin DOMAIN docs
    THEN {[offsets |-> <<>>, result |-> Undefined]}
    ELSE {[offsets |-> <<o>>, result |-> hoverAt(docs[params.textDocument.uri], o)] :
              o \in offsetAt(docs[params.textDocument.uri], params.position)}

\* format(params): what it returns, with the offsets document.getText(range) took
format(docs, params) ==
    IF params.textDocument.uri \notin DOMAIN docs
    THEN {[offsets |-> <<>>, result |-> <<>>]}
    ELSE LET t == docs[params.textDocument.uri]
         IN  {[offsets |-> <<a, b>>, result |-> formatAt(t, params.range, a, b)] :
                  a \in offsetAt(t, params.range.start), b \in offsetAt(t, params.range.end)}

(***************************************************************************)
(* The requests (SpecRequests): a run of the immediate server in which    *)
(* the client opens u1 with any of RequestTexts, may close it again, and   *)
(* then sends one request, for u1 or for u2: the request ends the run, so  *)
(* that a state shows the documents the request was served from.           *)
(***************************************************************************)

\* a text is at most MaxPieces pieces in a row
MaxPieces == 2

\* the positions of the requests: lines 0..MaxLine, characters 0..MaxChar
MaxLine == 1
MaxChar == 2

Pieces ==
    { <<"A","S">>, <<"a","s">>, <<"x">>, <<" ">>, <<"\t">>, <<"\n">>, <<",">>,
      <<"h","o","s","t",".","h","o","s","t","n","a","m","e">> }

RECURSIVE PieceStrings(_)
PieceStrings(n) ==
    IF n = 0 THEN {<<>>}
    ELSE LET shorter == PieceStrings(n - 1)
         IN  shorter \cup {s \o p : s \in shorter, p \in Pieces}

\* longer texts: a keyword after a word it is the prefix of, and lines with
\* several keywords, fields and punctuation marks
Examples ==
    { <<"I","N","D","E","X","E","D"," ","I","N","D","E","X">>,
      <<"i","n","d","e","x"," "," ","u","s","e","r","s",",","f","i","l","t","e","r">>,
      <<"M","a","p"," ","n","o","t","(","x",")">>,
      <<"a","s"," ","x"," ","A","S">>,
      <<"A","S"," ","A","S","\n","a","s">>,
      <<"x",","," ","x",",","x">>,
      <<" "," ","x"," "," ","a","s","_","1"," ">>,
      <<"h","o","s","t",".","h","o","s","t","n","a","m","e",",",
        "h","o","s","t",".","h","o","s","t","n","a","m","e","s">> }

RequestTexts == PieceStrings(MaxPieces) \cup Examples

Positions == [line : 0..MaxLine, character : 0..MaxChar]

Origin == [line |-> 0, character |-> 0]

\* a position after the last line of every text
EndPosition == [line |-> MaxPieces + 1, character |-> 0]

Ranges ==
    {[start |-> Origin, end |-> q] : q \in Positions \cup {EndPosition}}
        \cup {[start |-> p, end |-> EndPosition] : p \in Positions}

TextDocumentPositionParams(uri, position) ==
    [textDocument |-> [uri |-> uri], position |-> position]

\* connection.onRequest('textDocument/completion', params => this.completion(params))
Completion(uri, position) ==
    LET params == TextDocumentPositionParams(uri, position)
    IN  /\ request' = [method |-> "textDocument/completion", params |-> params,
                       offsets |-> <<>>]
        /\ response' = completion(documents, params)
        /\ UNCHANGED <<build, sessionVars, validateVars, clientVars>>

\* connection.onRequest('textDocument/hover', params => this.hover(params))
Hover(uri, position) ==
    LET params == TextDocumentPositionParams(uri, position)
    IN  /\ \E out \in hover(documents, params) :
               /\ request' = [method |-> "textDocument/hover", params |-> params,
                              offsets |-> out.offsets]
               /\ response' = out.result
        /\ UNCHANGED <<build, sessionVars, validateVars, clientVars>>

\* connection.onRequest('textDocument/documentSymbol', ...)
DocumentSymbol(uri) ==
    LET params == [textDocument |-> [uri |-> uri]]
    IN  /\ request' = [method |-> "textDocument/documentSymbol", params |-> params,
                       offsets |-> <<>>]
        /\ response' = findDocumentSymbols(documents, params)
        /\ UNCHANGED <<build, sessionVars, validateVars, clientVars>>

\* connection.onRequest('textDocument/rangeFormatting', params => this.format(params))
RangeFormatting(uri, range) ==
    LET params == [textDocument |-> [uri |-> uri], range |-> range]
    IN  /\ \E out \in format(documents, params) :
               /\ request' = [method |-> "textDocument/rangeFormatting", params |-> params,
                              offsets |-> out.offsets]
               /\ response' = out.result
        /\ UNCHANGED <<build, sessionVars, validateVars, clientVars>>

InitRequests ==
    /\ Init
    /\ build = "part_001"

NextRequests ==
    \/ \E t \in RequestTexts :
           request = NoRequest /\ snapshots = <<>> /\ DidOpen001("u1", t)
    \/ \E uri \in URIs : request = NoRequest /\ DidClose(uri)
    \/ \E uri \in URIs, position \in Positions :
           request = NoRequest /\ Completion(uri, position)
    \/ \E uri \in URIs, position \in Positions :
           request = NoRequest /\ Hover(uri, position)
    \/ \E uri \in URIs : request = NoRequest /\ DocumentSymbol(uri)
    \/ \E uri \in URIs, range \in Ranges :
           request = NoRequest /\ RangeFormatting(uri, range)

SpecRequests == InitRequests /\ [][NextRequests]_vars

(***************************************************************************)
(* C1..C4: debounce, timers and publications                               *)
(***************************************************************************)

\* the number of validation passes run on snapshot j
PassCount(j) == Cardinality({k \in 1..Len(passes) : passes[k].snap = j})

\* j is the notification that follows i for the same URI
FollowsFor(i, j) ==
    /\ i < j
    /\ snapshots[i].uri = snapshots[j].uri
    /\ \A k \in (i + 1)..(j - 1) : snapshots[k].uri # snapshots[i].uri

IsLatestFor(j) ==
    \A k \in (j + 1)..Len(snapshots) : snapshots[k].uri # snapshots[j].uri

TimersOf(uri) == {t \in timers : t.uri = uri}

\* the publications sent for a URI, oldest first
PublishedFor(uri) == SelectSeq(published, LAMBDA p : p.uri = uri)

\* C1: of two notifications for one URI less than the debounce interval
\* apart, the first is never validated; the second is validated at most
\* once, on its own text, and exactly once when its timer is no longer
\* pending.
C1_TwoChangesOnePass ==
    \A i, j \in 1..Len(snapshots) :
        (FollowsFor(i, j) /\ snapshots[j].at - snapshots[i].at < DebounceMs) =>
            /\ PassCount(i) = 0
            /\ PassCount(j) <= 1
            /\ \A k \in 1..Len(passes) :
                   passes[k].snap = j => passes[k].text = snapshots[j].text
            /\ ( /\ IsLatestFor(j)
                 /\ snapshots[j].uri \in DOMAIN documents
                 /\ snapshots[j].uri \notin DOMAIN pendingValidationRequests )
                   => PassCount(j) = 1

\* C2: every URI has at most one scheduled validation timer.
C2_AtMostOneTimerPerUri ==
    \A uri \in URIs : Cardinality(TimersOf(uri)) <= 1

C2_Witness ==
    /\ \A uri \in URIs : Cardinality(TimersOf(uri)) = 1
    /\ \E t \in timers : \E i \in 1..(t.snap - 1) :
          FollowsFor(i, t.snap) /\ PassCount(i) = 0

\* C3: the publications of one URI that come from validation passes are in
\* the order of their snapshots: none comes from a snapshot older than that
\* of a publication sent before it.
C3_NoStalePublication ==
    \A i, j \in 1..Len(published) :
        ( /\ i < j
          /\ published[i].uri = published[j].uri
          /\ published[i].snap # 0 /\ published[j].snap # 0 )
            => published[i].snap <= published[j].snap

C3_Witness ==
    /\ build = "part_003"
    /\ \E i, j \in 1..Len(published) :
          /\ i < j
          /\ published[i].uri = published[j].uri
          /\ published[i].snap # 0
          /\ published[i].snap < published[j].snap
          /\ published[i].diagnostics # published[j].diagnostics

\* C4: a closed URI has no scheduled timer and no entry in the map, and
\* the last publication for it is the empty set cleanDiagnostics sent.
C4_ClosedUriClearedAndQuiet ==
    \A uri \in URIs :
        uri \notin DOMAIN documents =>
            /\ TimersOf(uri) = {}
            /\ uri \notin DOMAIN pendingValidationRequests
            /\ (\E i \in 1..Len(snapshots) : snapshots[i].uri = uri)
                   => /\ PublishedFor(uri) # <<>>
                      /\ PublishedFor(uri)[Len(PublishedFor(uri))]
                             = Publication(uri, <<>>, 0)

C4_Witness ==
    \E i \in 1..Len(snapshots) :
        LET uri == snapshots[i].uri IN
        /\ uri \notin DOMAIN documents
        /\ IsLatestFor(i)
        /\ PassCount(i) = 0
        /\ doValidate(build, snapshots[i].text) # <<>>
        /\ now >= snapshots[i].at + DebounceMs
        /\ PublishedFor(uri)[Len(PublishedFor(uri))] = Publication(uri, <<>>, 0)
        /\ Len(PublishedFor(uri)) >= 2

(***************************************************************************)
(* C11, C12: what a validation pass publishes                              *)
(***************************************************************************)

\* the publications that come from validation passes, oldest first
PassPublications == SelectSeq(published, LAMBDA p : p.snap # 0)

\* C11: two validation passes over equal texts publish equal diagnostic
\* lists, whatever the URI and whatever happened before.
C11_EqualTextsEqualDiagnostics ==
    \A i, j \in 1..Len(PassPublications) :
        snapshots[PassPublications[i].snap].text = snapshots[PassPublications[j].snap].text
            => PassPublications[i].diagnostics = PassPublications[j].diagnostics

C11_Witness ==
    \E i, j \in 1..Len(published) :
        /\ i + 1 < j
        /\ published[i].snap # 0 /\ published[j].snap # 0
        /\ published[i].uri # published[j].uri
        /\ snapshots[published[i].snap].text = snapshots[published[j].snap].text
        /\ published[i].diagnostics # <<>>
        /\ published[i].diagnostics = published[j].diagnostics
        /\ published[i + 1].diagnostics # published[i].diagnostics

\* C12: the k-th validation pass is followed by one publication, for the
\* URI of the pass, that carries the diagnostics of the text validated and
\* nothing else: nothing of an earlier publication is kept.
C12_PublicationIsReplacementSet ==
    /\ Len(PassPublications) = Len(passes)
    /\ \A k \in 1..Len(passes) :
          LET p == PassPublications[k]
              t == snapshots[passes[k].snap].text
          IN  /\ p.snap = passes[k].snap
              /\ p.uri = snapshots[p.snap].uri
              /\ passes[k].text = t
              /\ p.diagnostics = doValidate(build, t)

C12_Witness ==
    \E i, j \in 1..Len(published) :
        /\ i < j
        /\ published[i].uri = published[j].uri
        /\ published[i].snap # 0 /\ published[j].snap # 0
        /\ Len(published[i].diagnostics) = 2
        /\ published[j].diagnostics = <<>>

(***************************************************************************)
(* The vocabulary of the validator's contract, stated on the raw line      *)
(***************************************************************************)

TextLines == split(text, "\n")

IsBlankLine(l) == \A i \in 1..Len(l) : IsWhitespace(l[i])

\* the first two characters that are not whitespace are //
IsCommentLine(l) ==
    \E i \in 1..(Len(l) - 1) :
        /\ l[i] = "/" /\ l[i + 1] = "/"
        /\ \A j \in 1..(i - 1) : IsWhitespace(l[j])

IsStatementLine(l) == ~IsBlankLine(l) /\ ~IsCommentLine(l)

\* the first whitespace-delimited token of a line that is not blank
FirstToken(l) ==
    LET lo == CHOOSE i \in 1..Len(l) :
                  ~IsWhitespace(l[i]) /\ \A j \in 1..(i - 1) : IsWhitespace(l[j])
        hi == CHOOSE i \in lo..Len(l) :
                  /\ \A j \in lo..i : ~IsWhitespace(l[j])
                  /\ (i = Len(l) \/ IsWhitespace(l[i + 1]))
    IN  SubSeq(l, lo, hi)

StatementKeyword(l) == toUpperCase(FirstToken(l))

\* the number of non-empty whitespace-separated parts of a line
PartCount(l) ==
    Cardinality({i \in 1..Len(l) :
                    ~IsWhitespace(l[i]) /\ (i = 1 \/ IsWhitespace(l[i - 1]))})

HasChar(l, c) == \E i \in 1..Len(l) : l[i] = c

HasOddQuotes(l) == Cardinality({i \in 1..Len(l) : l[i] = "\""}) % 2 = 1

\* the diagnostics published for the line with index i that carry message msg
DiagsAt(i, msg) ==
    SelectSeq(diagnostics, LAMBDA d : d.range.start.line = i /\ d.message = msg)

KwINDEX  == <<"I","N","D","E","X">>
KwFILTER == <<"F","I","L","T","E","R">>
KwMAP    == <<"M","A","P">>

(***************************************************************************)
(* C5..C10: the five rules                                                 *)
(***************************************************************************)

\* C5: a text whose lines are all blank or comments gets an empty
\* diagnostic list.
C5_BlankAndCommentLinesYieldNothing ==
    (pc = "done" /\ \A i \in 1..Len(TextLines) :
                        IsBlankLine(TextLines[i]) \/ IsCommentLine(TextLines[i]))
        => diagnostics = <<>>

C5_Witness ==
    /\ pc = "done"
    /\ Len(TextLines) = 2
    /\ IsBlankLine(TextLines[1]) /\ Len(TextLines[1]) > 0
    /\ IsCommentLine(TextLines[2]) /\ Len(TextLines[2]) > 3
    /\ IsWhitespace(TextLines[2][1])
    /\ diagnostics = <<>>

\* C6: a statement line whose first whitespace-delimited token, upper-cased,
\* is not one of the six start keywords gets exactly one unknown-keyword
\* Error, spanning columns 0 to the length of the token; a line whose first
\* token is one of the six, in any letter case, gets none.
C6_UnknownKeywordReportedOnce ==
    pc = "done" =>
        \A i \in 1..Len(TextLines) :
            LET l == TextLines[i] IN
            IsStatementLine(l) =>
                IF StatementKeyword(l) \notin validStartKeywords
                THEN DiagsAt(i - 1, MsgKeyword)
                        = <<Diagnostic(1, i - 1, Len(FirstToken(l)), MsgKeyword)>>
                ELSE DiagsAt(i - 1, MsgKeyword) = <<>>

\* C7: an INDEX line gets the arity Error if and only if it has fewer than
\* two non-empty whitespace-separated parts, and never more than one.
C7_IndexArity ==
    pc = "done" =>
        \A i \in 1..Len(TextLines) :
            LET l == TextLines[i] IN
            (IsStatementLine(l) /\ StatementKeyword(l) = KwINDEX) =>
                /\ Len(DiagsAt(i - 1, MsgIndex)) = (IF PartCount(l) < 2 THEN 1 ELSE 0)
                /\ \A k \in 1..Len(DiagsAt(i - 1, MsgIndex)) :
                       DiagsAt(i - 1, MsgIndex)[k].severity = 1

C7_Witness ==
    /\ pc = "done"
    /\ \E i \in 1..Len(TextLines) :
          /\ IsStatementLine(TextLines[i])
          /\ StatementKeyword(TextLines[i]) = KwINDEX
          /\ FirstToken(TextLines[i]) # KwINDEX
          /\ PartCount(TextLines[i]) = 1
          /\ Len(DiagsAt(i - 1, MsgIndex)) = 1
    /\ \E i \in 1..Len(TextLines) :
          /\ IsStatementLine(TextLines[i])
          /\ StatementKeyword(TextLines[i]) = KwINDEX
          /\ HasChar(TextLines[i], "\t")
          /\ PartCount(TextLines[i]) = 2
          /\ DiagsAt(i - 1, MsgIndex) = <<>>

\* C8: a FILTER line gets exactly one comparison-operator Error if and only
\* if it contains none of > < = != , and none otherwise.
C8_FilterCondition ==
    pc = "done" =>
        \A i \in 1..Len(TextLines) :
            LET l == TextLines[i] IN
            (IsStatementLine(l) /\ StatementKeyword(l) = KwFILTER) =>
                /\ Len(DiagsAt(i - 1, MsgFilter))
                     = (IF HasChar(l, ">") \/ HasChar(l, "<") \/ HasChar(l, "=")
                        THEN 0 ELSE 1)
                /\ \A k \in 1..Len(DiagsAt(i - 1, MsgFilter)) :
                       DiagsAt(i - 1, MsgFilter)[k].severity = 1

\* C9: a MAP line gets exactly one Warning (severity 2) if and only if it
\* contains neither the literal AS nor a dot; the rule never gives an Error.
C9_MapShape ==
    pc = "done" =>
        \A i \in 1..Len(TextLines) :
            LET l == TextLines[i] IN
            (IsStatementLine(l) /\ StatementKeyword(l) = KwMAP) =>
                /\ Len(DiagsAt(i - 1, MsgMap))
                     = (IF includes(l, <<"A","S">>) \/ HasChar(l, ".") THEN 0 ELSE 1)
                /\ \A k \in 1..Len(DiagsAt(i - 1, MsgMap)) :
                       DiagsAt(i - 1, MsgMap)[k].severity = 2

\* C10: a statement line gets the unmatched-quotes Error if and only if it
\* holds an odd number of double quotes, whatever its keyword and whatever
\* the other rules report; with an unknown keyword it carries both Errors.
C10_UnmatchedQuotes ==
    pc = "done" =>
        \A i \in 1..Len(TextLines) :
            LET l == TextLines[i] IN
            IsStatementLine(l) =>
                /\ Len(DiagsAt(i - 1, MsgQuotes)) = (IF HasOddQuotes(l) THEN 1 ELSE 0)
                /\ \A k \in 1..Len(DiagsAt(i - 1, MsgQuotes)) :
                       DiagsAt(i - 1, MsgQuotes)[k].severity = 1
                /\ (HasOddQuotes(l) /\ StatementKeyword(l) \notin validStartKeywords)
                       => Len(DiagsAt(i - 1, MsgKeyword)) >= 1

C10_Witness ==
    /\ pc = "done"
    /\ Len(TextLines) = 2
    /\ IsStatementLine(TextLines[1]) /\ HasOddQuotes(TextLines[1])
    /\ StatementKeyword(TextLines[1]) = KwMAP
    /\ Len(DiagsAt(0, MsgMap)) = 1 /\ Len(DiagsAt(0, MsgQuotes)) = 1
    /\ IsStatementLine(TextLines[2])
    /\ StatementKeyword(TextLines[2]) \notin validStartKeywords
    /\ Cardinality({k \in 1..Len(TextLines[2]) : TextLines[2][k] = "\""}) = 1
    /\ Len(DiagsAt(1, MsgKeyword)) = 1 /\ Len(DiagsAt(1, MsgQuotes)) = 1

(***************************************************************************)
(* C13: the shape of a diagnostic                                          *)
(***************************************************************************)

\* the keyword whose rule gives the message, for the three keyword rules
RuleKeyword(msg) ==
    CASE msg = MsgIndex  -> KwINDEX
      [] msg = MsgFilter -> KwFILTER
      [] msg = MsgMap    -> KwMAP

\* C13: every diagnostic has severity 1 or 2 and source "Echo Query"; its
\* range starts and ends on the 0-based index of the line it is about, a
\* statement line of the text that the message fits (blank and comment
\* lines before it are counted), from character 0 to a character >= 0.
C13_DiagnosticShape ==
    pc = "done" =>
        \A k \in 1..Len(diagnostics) :
            LET d == diagnostics[k] IN
            /\ d.severity \in {1, 2}
            /\ d.source = "Echo Query"
            /\ d.range.start.line = d.range.end.line
            /\ d.range.start.line \in 0..(Len(TextLines) - 1)
            /\ d.range.start.character = 0
            /\ d.range.end.character >= d.range.start.character
            /\ d.message \in {MsgKeyword, MsgIndex, MsgFilter, MsgMap, MsgQuotes}
            /\ LET l == TextLines[d.range.start.line + 1] IN
               /\ IsStatementLine(l)
               /\ d.message = MsgQuotes => HasOddQuotes(l)
               /\ d.message \in {MsgIndex, MsgFilter, MsgMap}
                      => StatementKeyword(l) = RuleKeyword(d.message)

C13_Witness ==
    /\ pc = "done"
    /\ Len(TextLines) = 2
    /\ IsCommentLine(TextLines[1])
    /\ Len(diagnostics) = 2
    /\ diagnostics[1].range.start.line = 1 /\ diagnostics[1].range.end.line = 1
    /\ diagnostics[1].severity = 2
    /\ diagnostics[2].severity = 1
    /\ diagnostics[2].range.end.character > 0

(***************************************************************************)
(* C14..C20: the requests                                                  *)
(***************************************************************************)

\* the request served was of method m
Served(m) == request.method = m

\* the URI of the request served, and whether the server holds its document
RequestUri == request.params.textDocument.uri
RequestFound == request.method # "none" /\ RequestUri \in DOMAIN documents
RequestMissing == request.method # "none" /\ RequestUri \notin DOMAIN documents

\* the text of the document of the request served
RequestText == documents[RequestUri]

\* the labels complete is to give, in order
ExpectedLabels ==
    <<"INDEX", "FILTER", "MAP", "AS", "SQL", "JOIN", "NOT",
      "winlog.event_id", "winlog.event_data.ProcessName", "host.hostname",
      "process.executable">>

\* C14: for every document the server holds and every position, completion
\* returns the same 11 items: the keywords INDEX, FILTER, MAP, AS, SQL, JOIN,
\* NOT in this order (kind Keyword), then the 4 field paths (kind Field).
C14_CompletionIsTheStaticList ==
    (Served("textDocument/completion") /\ RequestFound) =>
        /\ Len(response.items) = 11
        /\ \A k \in 1..11 : response.items[k].label = ExpectedLabels[k]
        /\ \A k \in 1..7 : response.items[k].kind = CompletionItemKind.Keyword
        /\ \A k \in 8..11 : response.items[k].kind = CompletionItemKind.Field

C14_Witness ==
    /\ Served("textDocument/completion")
    /\ RequestFound
    /\ RequestText = <<"a", "s", " ">>
    /\ request.params.position = [line |-> 0, character |-> 2]
    /\ Len(response.items) = 11

\* the words of t: the maximal runs of word characters, from characters
\* before the word and to characters up to its end
WordSpans(t) ==
    {w \in [from : 0..Len(t), to : 0..Len(t)] :
        /\ w.from < w.to
        /\ \A i \in (w.from + 1)..w.to : IsWordChar(t[i])
        /\ w.from = 0 \/ ~IsWordChar(t[w.from])
        /\ w.to = Len(t) \/ ~IsWordChar(t[w.to + 1])}

\* the words that hold the offset or touch it with either end
TouchingWords(t, offset) ==
    {w \in WordSpans(t) : w.from <= offset /\ offset <= w.to}

WordText(t, w) == SubSeq(t, w.from + 1, w.to)

\* the offset the hover request served was resolved to
HoverOffset == request.offsets[1]

\* the first line of the hover content of each keyword, in the order of
\* keywordAlternatives
KeywordTitle ==
    <<"INDEX statement", "FILTER operation", "MAP function", "AS clause",
      "SQL operation", "JOIN function", "NOT operator">>

\* C15: hover at an offset inside a word or on either of its ends returns
\* the content of the keyword when the upper-cased word is one of the 7
\* keywords, whatever its letter case, and the generic fallback "Echo Query
\* Language" for any other word.
C15_HoverOnWord ==
    (Served("textDocument/hover") /\ RequestFound) =>
        \A w \in TouchingWords(RequestText, HoverOffset) :
            LET upper == toUpperCase(WordText(RequestText, w))
                isKeyword == \E k \in 1..7 : upper = keywordAlternatives[k]
            IN  /\ response # Undefined
                /\ isKeyword =>
                       /\ response[1].contents # FallbackContents
                       /\ \A k \in 1..7 : upper = keywordAlternatives[k] =>
                              response[1].contents[1] = KeywordTitle[k]
                /\ ~isKeyword => response[1].contents = FallbackContents

\* hover on the end of a lower-case keyword, and on a word that is no keyword
C15_Witness ==
    /\ Served("textDocument/hover")
    /\ RequestFound
    /\ RequestText = <<"a", "s", " ">>
    /\ HoverOffset = 2
    /\ response = Defined([contents |-> <<"AS clause", "Assigns an alias to the result set">>])

\* C16: hover at an offset of a document the server holds that no word
\* holds or touches returns the absent result, not the generic fallback.
C16_HoverOffWordIsAbsent ==
    (Served("textDocument/hover") /\ RequestFound
        /\ TouchingWords(RequestText, HoverOffset) = {})
            => response = Undefined

\* the result of the request served is the empty one of its method
EmptyResult ==
    CASE Served("textDocument/completion")     -> response.items = <<>>
      [] Served("textDocument/documentSymbol")  -> response = <<>>
      [] Served("textDocument/hover")           -> response = Undefined
      [] Served("textDocument/rangeFormatting") -> response = <<>>

\* a step that serves a request leaves the documents, the timers and the
\* notifications sent as they were
RequestLeavesStateUnchanged ==
    (request = NoRequest /\ request' # NoRequest
        /\ request'.params.textDocument.uri \notin DOMAIN documents)
            => UNCHANGED <<documents, pendingValidationRequests, timers, nextTimer,
                           passes, published>>

\* C17: a request for a URI the server holds no document of (never opened,
\* or closed) returns the empty result of its method (no completion items,
\* no symbols, the absent hover, no edits) and changes nothing in the server.
C17_MissingDocumentGivesEmptyResult ==
    /\ [](RequestMissing => EmptyResult)
    /\ [][RequestLeavesStateUnchanged]_vars

\* a hover request for u1 after u1 was opened and closed
C17_Witness ==
    /\ Served("textDocument/hover")
    /\ RequestUri = "u1"
    /\ RequestMissing
    /\ Len(snapshots) = 1
    /\ Len(published) = 2
    /\ published[2] = Publication("u1", <<>>, 0)
    /\ response = Undefined

\* the lines of the document of the request served
RequestLines == split(RequestText, "\n")

\* a whole-word occurrence of one of the 7 keywords on a line, in any case
KeywordOccurrences(line) ==
    {w \in WordSpans(line) :
        \E k \in 1..7 : toUpperCase(WordText(line, w)) = keywordAlternatives[k]}

\* an occurrence of one of the field paths on a line, not part of a longer word
FieldOccurrences(line) ==
    {w \in [from : 0..Len(line), to : 0..Len(line)] :
        /\ w.from < w.to
        /\ \E k \in 1..Len(fieldAlternatives) : WordText(line, w) = fieldAlternatives[k]
        /\ IsWordBoundary(line, w.from)
        /\ IsWordBoundary(line, w.to)}

\* the k-th of a set of occurrences, from the left
NthOccurrence(occurrences, k) ==
    CHOOSE w \in occurrences :
        Cardinality({v \in occurrences : v.from < w.from}) = k - 1

\* the entries of the response for line i of a given kind
EntriesOf(i, kind) ==
    SelectSeq(response, LAMBDA e : e.location.range.start.line = i /\ e.kind = kind)

\* the entries are the occurrences, one for one and in their order
EntriesMatch(entries, line, occurrences) ==
    /\ Len(entries) = Cardinality(occurrences)
    /\ \A k \in 1..Len(entries) :
           entries[k].name = WordText(line, NthOccurrence(occurrences, k))

C19_KeywordSpanIsWholeWord ==
    (Served("textDocument/documentSymbol") /\ RequestFound) =>
        \A k \in 1..Len(response) :
            response[k].kind = SymbolKind.Keyword =>
                LET range == response[k].location.range
                    line  == RequestLines[range.start.line + 1]
                    span  == [from |-> range.start.character, to |-> range.end.character]
                IN  /\ span \in WordSpans(line)
                    /\ WordText(line, span) = response[k].name

\* the text format was given: the text of the range of the request served
FormatInput == substring(RequestText, request.offsets[1], request.offsets[2])

\* C20: format is idempotent: formatting the text format returned gives
\* that text again, for every text and every range.
C20_FormatIsIdempotent ==
    (Served("textDocument/rangeFormatting") /\ RequestFound) =>
        /\ Len(response) = 1
        /\ response[1].newText = formatText(FormatInput)
        /\ formatText(response[1].newText) = response[1].newText

\* a range that starts inside the text, and a text that format changes
C20_Witness ==
    /\ Served("textDocument/rangeFormatting")
    /\ RequestFound
    /\ RequestText = <<"x",","," ","x",",","x">>
    /\ request.offsets = <<1, 6>>
    /\ response[1].newText = <<",", " ", "x", ",", " ", "x">>

(***************************************************************************)
(* C21, C22: what format returns                                           *)
(***************************************************************************)

ExampleText ==
    <<"i","n","d","e","x"," "," ","u","s","e","r","s",",","f","i","l","t","e","r">>

\* format was asked for the whole of ExampleText
FormatOfExample ==
    /\ Served("textDocument/rangeFormatting")
    /\ RequestFound
    /\ RequestText = ExampleText
    /\ request.offsets = <<0, Len(ExampleText)>>

\* C21 as stated: formatting "index  users,filter" over its full range
\* yields "INDEX users, filter".
C21_ExampleAsStated ==
    FormatOfExample =>
        response[1].newText =
            <<"I","N","D","E","X"," ","u","s","e","r","s",","," ","f","i","l","t","e","r">>

\* C21: formatting "index  users,filter" over its full range yields
\* "INDEX users, FILTER": filter is a whole word too and is upper-cased.
C21_ExampleFormatted ==
    FormatOfExample =>
        response[1].newText =
            <<"I","N","D","E","X"," ","u","s","e","r","s",","," ","F","I","L","T","E","R">>

C21_Witness ==
    /\ FormatOfExample
    /\ request.params.range = [start |-> Origin, end |-> EndPosition]
    /\ Len(response[1].newText) = Len(ExampleText)

\* the characters after which format puts a blank
Punctuation == {",", "(", ")", "{", "}"}

\* s without its whitespace
WithoutWhitespace(s) == SelectSeq(s, LAMBDA c : ~IsWhitespace(c))

\* character i of line is a letter of a whole-word keyword, in any case
InKeyword(line, i) ==
    \E k \in 1..7 :
        LET n == Len(keywordAlternatives[k]) IN
        \E p \in (i - n)..(i - 1) :
            /\ 0 <= p /\ p + n <= Len(line)
            /\ toUpperCase(SubSeq(line, p + 1, p + n)) = keywordAlternatives[k]
            /\ p = 0 \/ ~IsWordChar(line[p])
            /\ p + n = Len(line) \/ ~IsWordChar(line[p + n + 1])

\* line with the letters of its whole-word keywords in upper case and
\* every other character as it is
KeywordsUpper(line) ==
    [i \in 1..Len(line) |-> IF InKeyword(line, i) THEN UpperChar(line[i]) ELSE line[i]]

\* for every i, how many characters of s[1..i] are not whitespace
InkUpTo(s) == [i \in 1..Len(s) |-> Cardinality({j \in 1..i : ~IsWhitespace(s[j])})]

\* out is line in canonical form
CanonicalOf(out, line) ==
    LET inkOut  == InkUpTo(out)
        inkLine == InkUpTo(line)
        \* the whitespace of line that has characters on both sides
        inner   == {j \in 1..Len(line) :
                       /\ IsWhitespace(line[j])
                       /\ 0 < inkLine[j] /\ inkLine[j] < inkLine[Len(line)]}
        \* the number of characters before each of them
        gaps    == {inkLine[j] : j \in inner}
    IN
    \* the same characters but for whitespace, keywords in upper case
    /\ WithoutWhitespace(out) = WithoutWhitespace(KeywordsUpper(line))
    \* whitespace is single blanks, none at either end
    /\ \A i \in 1..Len(out) : IsWhitespace(out[i]) =>
           /\ out[i] = " "
           /\ 1 < i /\ i < Len(out)
           /\ ~IsWhitespace(out[i + 1])
    \* a blank after every punctuation mark that is not the last character
    /\ \A i \in 1..(Len(out) - 1) : out[i] \in Punctuation => out[i + 1] = " "
    \* a blank stands where the line had whitespace between two characters,
    \* and nowhere else but after a punctuation mark
    /\ \A i \in 2..(Len(out) - 1) : out[i] = " " =>
           out[i - 1] \in Punctuation \/ inkOut[i] \in gaps
    /\ \A g \in gaps : \E i \in 1..Len(out) : out[i] = " " /\ inkOut[i] = g

\* C22: for a document the server holds, format returns one edit; its
\* range is the range asked for; its new text has as many lines as the text
\* of the range, and each is the line of the range in canonical form:
\* whole-word keywords in upper case (words that only contain one as they
\* were), a blank after each of , ( ) { }, whitespace runs as one blank,
\* none at the start or the end.
C22_FormatShape ==
    (Served("textDocument/rangeFormatting") /\ RequestFound) =>
        /\ Len(response) = 1
        /\ response[1].range = request.params.range
        /\ LET in  == split(FormatInput, "\n")
               out == split(response[1].newText, "\n")
           IN  /\ Len(out) = Len(in)
               /\ \A k \in 1..Len(in) : CanonicalOf(out[k], in[k])

\* "  x  as_1 " in full: as_1 only contains a keyword and stays as it is
C22_Witness ==
    /\ Served("textDocument/rangeFormatting")
    /\ RequestFound
    /\ RequestText = <<" "," ","x"," "," ","a","s","_","1"," ">>
    /\ request.offsets = <<0, 10>>
    /\ response[1].newText = <<"x"," ","a","s","_","1">>

(***************************************************************************)
(* C23, C24: cancelling, and the other documents                           *)
(***************************************************************************)

\* the step is the close notification of uri
ClosesStep(uri) == uri \in DOMAIN documents /\ uri \notin DOMAIN documents'

\* the step is an open or change notification of uri
NotifiesStep(uri) ==
    /\ Len(snapshots') = Len(snapshots) + 1
    /\ snapshots'[Len(snapshots')].uri = uri

\* a step that cancels the pending validation of a URI that has none
\* cancels nothing: a close leaves the map and the timers as they are, an
\* open or change leaves every entry and every timer there was
CancelOfNothing ==
    \A uri \in URIs :
        uri \notin DOMAIN pendingValidationRequests =>
            /\ ClosesStep(uri) =>
                   /\ pendingValidationRequests' = pendingValidationRequests
                   /\ timers' = timers
            /\ NotifiesStep(uri) =>
                   /\ timers \subseteq timers'
                   /\ \A v \in DOMAIN pendingValidationRequests :
                          /\ v \in DOMAIN pendingValidationRequests'
                          /\ pendingValidationRequests'[v] = pendingValidationRequests[v]

\* C23: cancelling the pending validation of a URI that has no pending
\* timer (a close with no change before it, a close after the timer fired,
\* a second cancel) is a no-op: the pending-timer map and the timers of
\* the other documents stay as they are.
C23_CancelWithoutTimerIsNoOp == [][CancelOfNothing]_vars

\* u1 was validated and then closed (its timer had fired) while u2's
\* validation is pending: u2's timer is still there
C23_Witness ==
    /\ Len(published) = 2
    /\ published[1].uri = "u1" /\ published[1].snap = 1
    /\ published[2] = Publication("u1", <<>>, 0)
    /\ Len(snapshots) = 2
    /\ snapshots[2].uri = "u2"
    /\ DOMAIN pendingValidationRequests = {"u2"}
    /\ Cardinality(timers) = 1

\* what the server holds for a URI: its text, its map entry, its timers and
\* the publications sent for it
StateOf(uri) ==
    [text      |-> IF uri \in DOMAIN documents THEN <<documents[uri]>> ELSE <<>>,
     pending   |-> IF uri \in DOMAIN pendingValidationRequests
                   THEN <<pendingValidationRequests[uri]>> ELSE <<>>,
     timers    |-> TimersOf(uri),
     published |-> PublishedFor(uri)]

\* a notification for one URI leaves what the server holds for the others
OtherUrisUntouched ==
    \A u \in URIs :
        (ClosesStep(u) \/ NotifiesStep(u)) =>
            \A v \in URIs \ {u} : StateOf(v)' = StateOf(v)

\* the latest text of every document the server holds has had its
\* validation pass or has its timer pending
NoValidationLost ==
    \A j \in 1..Len(snapshots) :
        (IsLatestFor(j) /\ snapshots[j].uri \in DOMAIN documents) =>
            \/ PassCount(j) = 1
            \/ \E t \in timers : t.snap = j /\ t.uri = snapshots[j].uri

\* C24: timers are per URI: an open, change or close notification for a URI
\* leaves the pending validation, the text and the published diagnostics of
\* every other URI as they were, so that the latest text of each document
\* gets its own validation pass.
C24_TimersArePerUri ==
    /\ []NoValidationLost
    /\ [][OtherUrisUntouched]_vars

\* u1 and u2 were edited inside one debounce window and each was validated
C24_Witness ==
    /\ build = "part_003"
    /\ Len(snapshots) = 2
    /\ snapshots[1].uri = "u1" /\ snapshots[2].uri = "u2"
    /\ snapshots[2].at - snapshots[1].at < DebounceMs
    /\ Len(passes) = 2
    /\ passes[1].snap = 1 /\ passes[2].snap = 2
    /\ passes[1].at >= snapshots[2].at

(***************************************************************************)
(* C25: the order and the completeness of the diagnostic list              *)
(***************************************************************************)

\* the five rules by their messages, in the order they are applied
RuleOrder == <<MsgKeyword, MsgIndex, MsgFilter, MsgMap, MsgQuotes>>

RuleRank(msg) == CHOOSE r \in 1..5 : RuleOrder[r] = msg

\* the condition of rule r holds for line l
RuleViolated(r, l) ==
    /\ IsStatementLine(l)
    /\ CASE r = 1 -> StatementKeyword(l) \notin validStartKeywords
         [] r = 2 -> StatementKeyword(l) = KwINDEX /\ PartCount(l) < 2
         [] r = 3 -> /\ StatementKeyword(l) = KwFILTER
                     /\ ~(HasChar(l, ">") \/ HasChar(l, "<") \/ HasChar(l, "="))
         [] r = 4 -> /\ StatementKeyword(l) = KwMAP
                     /\ ~(includes(l, <<"A","S">>) \/ HasChar(l, "."))
         [] r = 5 -> HasOddQuotes(l)

TickLive ==
    /\ now + TickMs <= MaxClock \/ \E t \in timers : t.due > now
    /\ now' = now + TickMs
    /\ UNCHANGED <<build, documents, pendingValidationRequests, timers, nextTimer,
                   snapshots, passes, published, validateVars, requestVars, clientVars>>

NextLive ==
    \/ \E uri \in URIs, t \in DocTexts : DidOpen003(uri, t)
    \/ \E uri \in URIs, t \in DocTexts : DidChange003(uri, t)
    \/ \E uri \in URIs, t \in DocTexts : DidOpen001(uri, t)
    \/ \E uri \in URIs, t \in DocTexts : DidChange001(uri, t)
    \/ \E uri \in URIs : DidClose(uri)
    \/ \E t \in timers : TimerFire(t)
    \/ TickLive

\* the event loop runs a timer that is due, and the clock does not stop
SpecLive ==
    /\ Init
    /\ [][NextLive]_vars
    /\ WF_vars(\E t \in timers : TimerFire(t))
    /\ WF_vars(TickLive)

(***************************************************************************)
(* C26: validation happens in the end, and not before the edits stop       *)
(***************************************************************************)

\* notification j has arrived and is the last word on its document
Settled(j) ==
    /\ j <= Len(snapshots)
    /\ IsLatestFor(j)
    /\ snapshots[j].uri \in DOMAIN documents

\* a pass has run on the text of notification j and its diagnostics are
\* published for the URI
Validated(j) ==
    /\ j <= Len(snapshots)
    /\ \E k \in 1..Len(published) :
           /\ published[k].snap = j
           /\ published[k].uri = snapshots[j].uri
           /\ published[k].diagnostics = doValidate(build, snapshots[j].text)

\* every notification is validated in the end unless a change or a close
\* of its URI comes after it
EventuallyValidated ==
    \A j \in 1..MaxNotifications : Settled(j) ~> (Validated(j) \/ ~Settled(j))

\* no pass runs on a text that was replaced inside the debounce interval
NoPassWhileEditsArrive ==
    \A i, j \in 1..Len(snapshots) :
        (FollowsFor(i, j) /\ snapshots[j].at - snapshots[i].at < DebounceMs)
            => PassCount(i) = 0

\* C26: after an open or change notification for a URI with no change or
\* close of that URI after it, a validation pass on that text runs in the
\* end and its diagnostics are published for the URI; and no pass runs on a
\* text while edits keep arriving inside the debounce interval.
C26_ValidatedOnceEditsStop ==
    /\ EventuallyValidated
    /\ []NoPassWhileEditsArrive

(***************************************************************************)
(* C27: the map and the live timers                                        *)
(***************************************************************************)

\* the map has an entry for a URI exactly when a timer set for the URI is
\* live (not fired, not cancelled), and the entry is that timer
MapMirrorsLiveTimers ==
    /\ \A uri \in URIs :
           uri \in DOMAIN pendingValidationRequests <=> TimersOf(uri) # {}
    /\ \A uri \in DOMAIN pendingValidationRequests :
           TimersOf(uri) = {t \in timers : t.id = pendingValidationRequests[uri]}

\* when a pass publishes, the entry of its URI is gone already
EntryGoneWhenPublishing ==
    (Len(published') = Len(published) + 1 /\ published'[Len(published')].snap # 0)
        => published'[Len(published')].uri \notin DOMAIN pendingValidationRequests'

\* C27: in the debounced server pendingValidationRequests holds an entry
\* for a URI exactly when a validation scheduled for the URI has neither
\* fired nor been cancelled; the entry goes when the timer fires, before
\* doValidate publishes, and when the timer is cancelled.
C27_MapEntryIffLiveTimer ==
    /\ [](build = "part_003" => MapMirrorsLiveTimers)
    /\ [][build = "part_003" => EntryGoneWhenPublishing]_vars

\* u1's first timer was cancelled by a change, its second has fired; u2's
\* is live: the map holds u2 alone
C27_Witness ==
    /\ build = "part_003"
    /\ nextTimer = 4
    /\ Len(passes) = 1 /\ passes[1].uri = "u1" /\ passes[1].snap = 2
    /\ DOMAIN pendingValidationRequests = {"u2"}
    /\ pendingValidationRequests["u2"] = 3
    /\ \E t \in timers : t.id = 3 /\ t.uri = "u2"

(***************************************************************************)
(* C28: the word at an offset                                              *)
(***************************************************************************)

\* the first word in text order that holds the offset or touches it with
\* either end, if there is one
FirstTouchingWord(t, offset) ==
    LET touching == TouchingWords(t, offset)
    IN  IF touching = {} THEN Undefined
        ELSE Defined(WordText(t, CHOOSE w \in touching :
                                     \A v \in touching : w.from <= v.from))

\* C28: getWordAtOffset returns the first word in text order whose interval
\* [start, end] holds the offset, the end of the word counted as inside it;
\* at the end of a word that a single non-word character parts from the
\* next word this is the word that ends there.
C28_WordAtBoundary ==
    (Served("textDocument/hover") /\ RequestFound) =>
        getWordAtOffset(RequestText, HoverOffset)
            = FirstTouchingWord(RequestText, HoverOffset)

\* "as x AS" at offset 2, the end of as, one blank before x, and at
\* offset 3, the start of x
C28_Witness ==
    /\ Served("textDocument/hover")
    /\ RequestFound
    /\ RequestText = <<"a","s"," ","x"," ","A","S">>
    /\ HoverOffset = 2
    /\ getWordAtOffset(RequestText, 2) = Defined(<<"a","s">>)
    /\ getWordAtOffset(RequestText, 3) = Defined(<<"x">>)
    /\ response = Defined([contents |-> <<"AS clause", "Assigns an alias to the result set">>])


(***************************************************************************)
(* The editor client (SpecClient)                                          *)
(***************************************************************************)

\* const MAX_RECONNECT_ATTEMPTS = 5
MAX_RECONNECT_ATTEMPTS == 5

\* the WebSocket objects constructed in a run
MaxSockets == 6

\* the edits made in the editor in a run
MaxEdits == 2

\* message.id, message.method: a property the object lacks reads undefined
Field(message, name) ==
    IF name \in DOMAIN message THEN Defined(message[name]) ELSE Undefined

\* the capabilities object of the initialize request plays no part in what
\* the client does next and is left out; so is version: Date.now()
initializeRequest(id) ==
    [ jsonrpc |-> "2.0", id |-> id, method |-> "initialize" ]

initializedNotification ==
    [ jsonrpc |-> "2.0", method |-> "initialized" ]

didOpenNotification(value) ==
    [ jsonrpc |-> "2.0", method |-> "textDocument/didOpen",
      uri |-> "file:///workspace/query.echo", languageId |-> "echo-query", text |-> value ]

didChangeNotification(value) ==
    [ jsonrpc |-> "2.0", method |-> "textDocument/didChange",
      uri |-> "file:///workspace/query.echo", text |-> value ]

\* ws?.send(message), ws being the variable and not the socket of the handler:
\* nothing is sent through null, and a socket that is not open sends nothing
send(socks, w, message) ==
    IF w = null \/ socks[w].readyState # "OPEN" THEN socks
    ELSE [socks EXCEPT ![w].sent = Append(@, message)]

\* connectToServer with the test of reconnectAttempts forgotten
connectToServer_noLimit ==
    /\ sockets' = Append(sockets, WebSocket)
    /\ ws' = Len(sockets) + 1

\* connectToServer(): give up at MAX_RECONNECT_ATTEMPTS, else construct a
\* socket, keep it in ws and register the handlers below on it
connectToServer ==
    IF reconnectAttempts >= MAX_RECONNECT_ATTEMPTS
    THEN UNCHANGED <<ws, sockets>>
    ELSE /\ sockets' = Append(sockets, WebSocket)
         /\ ws' = Len(sockets) + 1

\* sendDocumentChange(), given the values of initialized and ws it reads
sendDocumentChange(socks, isInitialized, w, value) ==
    IF ~isInitialized \/ w = null THEN socks
    ELSE send(socks, w, didChangeNotification(value))

\* !initialized && message.id === 1
IsInitializeResponse(message) ==
    ~initialized /\ Field(message, "id") = Defined(1)

\* monaco.MarkerSeverity
MarkerSeverity == [Error |-> 8, Warning |-> 4]

\* diagnostics.map(d => ({...})): the marker of one diagnostic, 1-based
Marker(b, d) ==
    LET marker ==
            [ severity        |-> IF d.severity = 1 THEN MarkerSeverity.Error
                                  ELSE MarkerSeverity.Warning,
              message         |-> d.message,
              startLineNumber |-> d.range.start.line + 1,
              startColumn     |-> d.range.start.character + 1,
              endLineNumber   |-> d.range.end.line + 1,
              endColumn       |-> d.range.end.character + 1 ]
    IN  IF b = "part_000" THEN marker @@ [source |-> "Echo Query"] ELSE marker

\* ws.onopen of socket s
OnOpen(s) ==
    /\ sockets[s].readyState = "CONNECTING"
    /\ reconnectAttempts' = 0
    /\ nextRequestId' = nextRequestId + 1
    /\ sockets' = send([sockets EXCEPT ![s].readyState = "OPEN", ![s].wasOpen = TRUE],
                       ws, initializeRequest(nextRequestId))
    /\ UNCHANGED <<clientBuild, initialized, ws, reconnectTimers, content, edits, markers>>
    /\ UNCHANGED <<build, sessionVars, validateVars, requestVars>>

\* ws.onclose of socket s, whether the socket had opened or not; the closed
\* socket's messages are gone with it
OnClose(s) ==
    /\ sockets[s].readyState \in {"CONNECTING", "OPEN"}
    /\ sockets' = [sockets EXCEPT ![s] = [WebSocket EXCEPT !.readyState = "CLOSED",
                                                           !.wasOpen = sockets[s].wasOpen]]
    /\ initialized' = FALSE
    /\ ws' = null
    /\ reconnectAttempts' = reconnectAttempts + 1
    /\ reconnectTimers' = reconnectTimers + 1
    /\ UNCHANGED <<clientBuild, nextRequestId, content, edits, markers>>
    /\ UNCHANGED <<build, sessionVars, validateVars, requestVars>>

\* a setTimeout(connectToServer, RECONNECT_INTERVAL) callback runs
ReconnectTimerFire ==
    /\ reconnectTimers > 0
    /\ reconnectTimers' = reconnectTimers - 1
    /\ connectToServer
    /\ Len(sockets') <= MaxSockets
    /\ UNCHANGED <<clientBuild, initialized, nextRequestId, reconnectAttempts,
                   content, edits, markers>>
    /\ UNCHANGED <<build, sessionVars, validateVars, requestVars>>

\* ws.onmessage of socket s with the oldest message on its way
OnMessage(s) ==
    /\ sockets[s].readyState = "OPEN"
    /\ sockets[s].incoming # <<>>
    /\ LET message  == Head(sockets[s].incoming)
           received == [sockets EXCEPT ![s].incoming = Tail(@)]
           notified == send(received, ws, initializedNotification)
           opened   == IF clientBuild = "part_000"
                       THEN send(notified, ws, didOpenNotification(content))
                       ELSE notified
       IN  /\ IF IsInitializeResponse(message)
              THEN /\ initialized' = TRUE
                   /\ sockets' = sendDocumentChange(opened, TRUE, ws, content)
              ELSE /\ initialized' = initialized
                   /\ sockets' = received
           /\ IF Field(message, "method") = Defined("textDocument/publishDiagnostics")
              THEN markers' = [i \in 1..Len(message.diagnostics) |->
                                   Marker(clientBuild, message.diagnostics[i])]
              ELSE markers' = markers
    /\ UNCHANGED <<clientBuild, nextRequestId, ws, reconnectAttempts, reconnectTimers,
                   content, edits>>
    /\ UNCHANGED <<build, sessionVars, validateVars, requestVars>>

\* editor.onDidChangeModelContent: the editor's value is now value
EditorChange(value) ==
    /\ edits < MaxEdits
    /\ value # content
    /\ content' = value
    /\ edits' = edits + 1
    /\ sockets' = sendDocumentChange(sockets, initialized, ws, value)
    /\ UNCHANGED <<clientBuild, initialized, nextRequestId, ws, reconnectAttempts,
                   reconnectTimers, markers>>
    /\ UNCHANGED <<build, sessionVars, validateVars, requestVars>>

\* the EchoQueryServer created for socket s handles the next message sent on
\* it: the initialize request is answered under the request's id, and a
\* document notification has the diagnostics of its text published, provided
\* the document was opened on this socket; the debounced server may drop the
\* pass of a text that a later notification has already replaced
ServerHandle(s) ==
    /\ sockets[s].readyState = "OPEN"
    /\ sockets[s].handled < Len(sockets[s].sent)
    /\ LET k        == sockets[s].handled + 1
           message  == sockets[s].sent[k]
           IsDocument(m) ==
               m.method \in {"textDocument/didOpen", "textDocument/didChange"}
           isOpen   == \E i \in 1..k : sockets[s].sent[i].method = "textDocument/didOpen"
           replaced == \E i \in (k + 1)..Len(sockets[s].sent) : IsDocument(sockets[s].sent[i])
           result   == [ jsonrpc |-> "2.0", id |-> message.id ]
           publish  == [ jsonrpc |-> "2.0", method |-> "textDocument/publishDiagnostics",
                         uri |-> message.uri,
                         diagnostics |-> doValidate(build, message.text) ]
       IN  \E replies \in
                 IF message.method = "initialize" THEN {<<result>>}
                 ELSE IF IsDocument(message) /\ isOpen
                      THEN {<<publish>>} \cup
                           (IF build = "part_003" /\ replaced THEN {<<>>} ELSE {})
                      ELSE {<<>>} :
               sockets' = [sockets EXCEPT ![s].handled = k,
                                          ![s].incoming = @ \o replies]
    /\ UNCHANGED <<clientBuild, initialized, nextRequestId, ws, reconnectAttempts,
                   reconnectTimers, content, edits, markers>>
    /\ UNCHANGED <<build, sessionVars, validateVars, requestVars>>

\* the values typed into the editor
EditorValues == {InitialValue} \cup DocTexts

InitClient ==
    /\ build \in Builds
    /\ SessionInit
    /\ RequestInit
    /\ ClientInit
    /\ text = <<>>
    /\ diagnostics = <<>>
    /\ pc = "client"

NextClient ==
    \/ \E s \in DOMAIN sockets : OnOpen(s)
    \/ \E s \in DOMAIN sockets : OnClose(s)
    \/ \E s \in DOMAIN sockets : OnMessage(s)
    \/ \E s \in DOMAIN sockets : ServerHandle(s)
    \/ \E value \in EditorValues : EditorChange(value)
    \/ ReconnectTimerFire

SpecClient == InitClient /\ [][NextClient]_vars

(***************************************************************************)
(* C29, C30: the editor client                                             *)
(***************************************************************************)

\* this step is the close of socket s
CloseStep(s) ==
    sockets[s].readyState # "CLOSED" /\ sockets'[s].readyState = "CLOSED"

\* this step is the successful open of socket s
OpenStep(s) ==
    sockets[s].readyState = "CONNECTING" /\ sockets'[s].readyState = "OPEN"

\* the closes at the end of the run so far with no open in between: the
\* sockets constructed last are all closed, and none but the earliest of
\* them had opened
ClosesInARow(n) ==
    \A i \in (Len(sockets) - n + 1)..Len(sockets) :
        /\ sockets[i].readyState = "CLOSED"
        /\ i > Len(sockets) - n + 1 => ~sockets[i].wasOpen

ConsecutiveCloses ==
    CHOOSE n \in 0..Len(sockets) :
        ClosesInARow(n) /\ \A m \in (n + 1)..Len(sockets) : ~ClosesInARow(m)

ReconnectCounting ==
    /\ \A s \in DOMAIN sockets : CloseStep(s) => reconnectAttempts' = reconnectAttempts + 1
    /\ \A s \in DOMAIN sockets : OpenStep(s) => reconnectAttempts' = 0
    /\ ConsecutiveCloses >= MAX_RECONNECT_ATTEMPTS => Len(sockets') = Len(sockets)

\* C29: reconnectAttempts grows by one on every close of a socket and is 0
\* after every successful open, it never exceeds MAX_RECONNECT_ATTEMPTS, and
\* once 5 closes have followed one another with no open in between no step
\* constructs a socket
C29_ReconnectAttemptsBounded ==
    /\ [](reconnectAttempts <= MAX_RECONNECT_ATTEMPTS)
    /\ [][ReconnectCounting]_vars

\* the first socket failed, the second opened (the counter back to 0) and
\* closed, four more failed: five closes in a row, the last callback has run
\* and left no socket behind
C29_Witness ==
    /\ Len(sockets) = 6
    /\ ~sockets[1].wasOpen
    /\ sockets[2].wasOpen
    /\ ConsecutiveCloses = 5
    /\ reconnectAttempts = MAX_RECONNECT_ATTEMPTS
    /\ reconnectTimers = 0
    /\ ws = null

\* this step hands socket s the response to the initialize request sent on it
ResponseArrives(s) ==
    /\ sockets[s].readyState = "OPEN"
    /\ sockets[s].sent # <<>>
    /\ sockets[s].incoming # <<>>
    /\ Field(Head(sockets[s].incoming), "id") = Defined(sockets[s].sent[1].id)
    /\ sockets'[s].readyState = "OPEN"
    /\ sockets'[s].incoming = Tail(sockets[s].incoming)

\* the client is initialized and has sent the document on socket s
InitializedAndDocumentSent(s) ==
    /\ initialized'
    /\ sockets'[s].sent = sockets[s].sent \o <<initializedNotification,
                                               didOpenNotification(content),
                                               didChangeNotification(content)>>

\* a didChange goes out in this step
SendsDidChange ==
    \E s \in DOMAIN sockets :
        \E i \in (Len(sockets[s].sent) + 1)..Len(sockets'[s].sent) :
            sockets'[s].sent[i].method = "textDocument/didChange"

InitializedOnEveryConnection ==
    \A s \in DOMAIN sockets : ResponseArrives(s) => InitializedAndDocumentSent(s)

NoChangeBeforeInitialized == SendsDidChange => initialized'

\* C30: on every connection of the client that sends didOpen, the first or a
\* later one, the step that delivers the response to the connection's
\* initialize request leaves the client initialized with initialized, didOpen
\* and didChange sent; and no step sends a didChange and leaves the client
\* not initialized
C30_InitializedOnEveryConnection ==
    [][clientBuild = "part_000" =>
           InitializedOnEveryConnection /\ NoChangeBeforeInitialized]_vars

====
